---- MODULE Spec2Model ----
(***************************************************************************)
(* A model of DMXController (src/src/dmxController.js): the universes and  *)
(* their 512 channel values, fixtures, scenes, the timed effects (fade,    *)
(* chase, strobe) with the setInterval callbacks that drive them, and the  *)
(* frame encoder getDMXBuffer.                                             *)
(*                                                                         *)
(* Numbers are integers.  An array of numbers (universe.channels, a Buffer) *)
(* is its length and, by 0-based index as in the source, its elements that *)
(* are not 0 (see ArrayNew, ArrayGet, ArraySet).  Object keys that the     *)
(* source turns into strings and reads back with parseInt are integers     *)
(* here: the decimal string of an integer parses back to that integer.     *)
(* A value that is NaN or undefined in the source is the empty set, a      *)
(* number n is the set {n} (see startValues and FadeValue).  The createdAt  *)
(* stamps, which nothing reads, are left out of the records.               *)
(***************************************************************************)
EXTENDS Integers, Sequences, FiniteSets, TLC

(* ------------------------------ bounds -------------------------------- *)

\* Number of times the clock advances (by TickMs each time).
MaxClock == 2

\* Number of effect objects (and setInterval timers) ever created.
MaxEffects == 2

\* The same, in the specifications that interleave effects with many other
\* operations.
MaxStarts == 1

(* ------------------------- program constants -------------------------- *)

NumChannels == 512
MaxValue == 255
FrameLength == 513
FadeIntervalMs == 50

\* The clock advances in steps of this many milliseconds.
TickMs == FadeIntervalMs

(* ------------------------------ inputs -------------------------------- *)

UniverseIds == {"u1", "u2"}

\* Adapters that getAvailableAdapters discovers.
KnownAdapters == {"dmx-king-1", "enttec-1", "elation-1"}

\* Adapter ids a caller passes to connectUniverse.
AdapterInputs == {"dmx-king-1", "nope"}

\* Channel numbers a caller passes: outside, at and inside the edges.
ChannelInputs == {0, 1, 2, 512, 513}

\* Values a caller passes.
ValueInputs == {-1, 0, 200, 255, 256}

\* {channel: value} objects a caller passes to setChannels.
UpdatesInputs == {(5 :> 100) @@ (9 :> 200),
                  (0 :> 10) @@ (1 :> 256) @@ (2 :> 255) @@ (513 :> 1)}

\* Fixtures a caller defines: name, startChannel, channel count.
FixtureInputs == {<<"par", 1, 2>>, <<"spot", 510, 3>>}

\* Value lists a caller passes to controlFixture.
ValuesInputs == {<<200, 255>>, <<255, 0, 200>>}

\* Scene data a caller saves: the entries <<universeId, {channel: value}>> of the
\* object in the order Object.entries yields them.  "u2" is connected late or never.
SceneInputs == {<< <<"u1", (1 :> 200)>> >>,
                << <<"u2", (2 :> 255)>>, <<"u1", (1 :> 0) @@ (2 :> 300)>> >>,
                << <<"u1", (2 :> 255)>>, <<"u2", (1 :> 5)>> >>}

(* ------------------------------- state -------------------------------- *)

VARIABLES
    dmxAdapters,    \* this.dmxAdapters: the ids of the discovered adapters
    universes,      \* this.universes: universeId -> universe record
    fixtures,       \* this.fixtures: fixtureId -> fixture record
    scenes,         \* this.scenes: sceneId -> scene record
    effects,        \* this.effects: effectId -> index of the effect object
    activeEffects,  \* this.activeEffects: set of effectIds
    intervals,      \* the effect objects and the setInterval timers closed over them
    now,            \* Date.now()
    frame,          \* the Buffer last returned by getDMXBuffer
    ret,            \* outcome of the last call: returned value or thrown error
    emitted,        \* events emitted by the last call or timer callback
    held            \* the channels array of a status object that a caller kept

vars == <<dmxAdapters, universes, fixtures, scenes, effects, activeEffects,
          intervals, now, frame, ret, emitted, held>>

(* ------------------------------ helpers ------------------------------- *)

Range(s) == {s[i] : i \in 1..Len(s)}

\* new Array(n).fill(0) and Buffer.alloc(n): n elements, all 0.
ArrayNew(n) == [length |-> n, nz |-> <<>>]

\* a[i]: {} (undefined) outside the array.
ArrayGet(a, i) ==
    IF i \in DOMAIN a.nz THEN {a.nz[i]}
    ELSE IF i >= 0 /\ i < a.length THEN {0}
    ELSE {}

\* Mutant: the store keeps the higher of the old and the new value.
ArraySet_Mutant(a, i, v) ==
    [length |-> IF i >= a.length THEN i + 1 ELSE a.length,
     nz |-> IF i \in DOMAIN a.nz /\ a.nz[i] >= v THEN a.nz
            ELSE IF v = 0 THEN [k \in DOMAIN a.nz \ {i} |-> a.nz[k]]
            ELSE (i :> v) @@ a.nz]

\* a[i] = v.  An index at or past the end grows the array; a negative index sets
\* a property and leaves the length alone.
ArraySet(a, i, v) ==
    [length |-> IF i >= a.length THEN i + 1 ELSE a.length,
     nz |-> IF v = 0 THEN [k \in DOMAIN a.nz \ {i} |-> a.nz[k]]
            ELSE (i :> v) @@ a.nz]

\* The value of channel ch (1-based) of a channel array that holds it.
ChannelValue(channels, ch) == CHOOSE v \in ArrayGet(channels, ch - 1) : TRUE

\* The outcome of a call that returned.
Returned(op) ==
    [op |-> op, ok |-> TRUE, error |-> "", updatedCount |-> 0, effectId |-> <<>>,
     status |-> {}]

\* The outcome of a call that threw: the error kind of the message thrown.
Threw(op, kind) ==
    [op |-> op, ok |-> FALSE, error |-> kind, updatedCount |-> 0, effectId |-> <<>>,
     status |-> {}]

NoFrame == <<>>

\* held: no array kept; else the universe id the array came from and, once the
\* universe record was replaced, the elements the array was left with.  While
\* live, the array is the one in universes[universeId].channels.
NotHeld == {}

\* The variables no channel store operation touches.
effectVars == <<effects, activeEffects, intervals>>

(* --------------------------- Channel Store ---------------------------- *)

\* Mutant: the test accepts channel 0.
ChannelOutOfRange_Mutant(channel) == channel < 0 \/ channel > NumChannels

\* Mutant: the test accepts 256.
ValueOutOfRange_Mutant(value) == value < 0 \/ value > MaxValue + 1

\* setChannel's range tests (lines 103 and 107): the call throws when they hold.
ChannelOutOfRange(channel) == channel < 1 \/ channel > NumChannels

ValueOutOfRange(value) == value < 0 \/ value > MaxValue

\* Mutant: the test forgets the upper end of the value range.
ValidEntry_Mutant(ch, value) == ch >= 1 /\ ch <= NumChannels /\ value >= 0

\* setChannels' test of one entry (line 144).
ValidEntry(ch, value) == ch >= 1 /\ ch <= NumChannels /\ value >= 0 /\ value <= MaxValue

\* Mutant: an entry counts whatever its value.
ValidKeys_Mutant(updates) == {ch \in DOMAIN updates : ch >= 1 /\ ch <= NumChannels}

\* The entries of a {channel: value} object that setChannels writes.
ValidKeys(updates) == {ch \in DOMAIN updates : ValidEntry(ch, updates[ch])}

\* Mutant: the loop writes each value one element too far.
ApplyUpdates_Mutant(channels, updates) ==
    [length |-> channels.length,
     nz |-> [i \in {ch : ch \in ValidKeys(updates)} |-> updates[i]] @@ channels.nz]

\* setChannels' loop (lines 142-148) on a channel array, over the keys not yet
\* visited: universe.channels[ch - 1] = value for each valid entry.
RECURSIVE ApplyKeys(_, _, _)
ApplyKeys(channels, updates, keys) ==
    IF keys = {} THEN channels
    ELSE LET ch == CHOOSE k \in keys : \A j \in keys : k <= j
         IN ApplyKeys(ArraySet(channels, ch - 1, updates[ch]), updates, keys \ {ch})

ApplyUpdates(channels, updates) == ApplyKeys(channels, updates, ValidKeys(updates))

\* The universes after setChannels(universeId, updates) found the universe.
WriteChannels(unis, universeId, updates, t) ==
    [unis EXCEPT ![universeId].channels = ApplyUpdates(@, updates),
                 ![universeId].lastUpdate = t]

SetChannel(universeId, channel, value) ==
    /\ IF universeId \notin DOMAIN universes
         THEN /\ ret' = Threw("setChannel", "UniverseNotFound")
              /\ emitted' = <<>>
              /\ UNCHANGED universes
       ELSE IF ChannelOutOfRange(channel)
         THEN /\ ret' = Threw("setChannel", "ChannelOutOfRange")
              /\ emitted' = <<>>
              /\ UNCHANGED universes
       ELSE IF ValueOutOfRange(value)
         THEN /\ ret' = Threw("setChannel", "ValueOutOfRange")
              /\ emitted' = <<>>
              /\ UNCHANGED universes
       ELSE /\ universes' = [universes EXCEPT
                               ![universeId].channels = ArraySet(@, channel - 1, value),
                               ![universeId].lastUpdate = now]
            /\ ret' = Returned("setChannel")
            /\ emitted' = <<"channelChanged">>
    /\ UNCHANGED <<dmxAdapters, fixtures, scenes, effectVars, now, frame, held>>

SetChannels(universeId, updates) ==
    /\ IF universeId \notin DOMAIN universes
         THEN /\ ret' = Threw("setChannels", "UniverseNotFound")
              /\ emitted' = <<>>
              /\ UNCHANGED universes
       ELSE /\ universes' = WriteChannels(universes, universeId, updates, now)
            /\ ret' = [Returned("setChannels") EXCEPT
                          !.updatedCount = Cardinality(ValidKeys(updates))]
            /\ emitted' = <<"channelsChanged">>
    /\ UNCHANGED <<dmxAdapters, fixtures, scenes, effectVars, now, frame, held>>

(* -------------------------- Universe Registry ------------------------- *)

GetAvailableAdapters ==
    /\ dmxAdapters' = KnownAdapters
    /\ ret' = Returned("getAvailableAdapters")
    /\ emitted' = <<"adaptersDiscovered">>
    /\ UNCHANGED <<universes, fixtures, scenes, effectVars, now, frame, held>>

\* held after this.universes.set(universeId, universe) (line 79) put a new record
\* with a new array in the place of universeId's: an array kept from the old
\* record stays as it is and is no longer the universe's.
Detached(universeId) ==
    {IF h.universeId = universeId /\ h.live
       THEN [h EXCEPT !.live = FALSE, !.channels = universes[universeId].channels]
       ELSE h : h \in held}

\* Mutant: a universe that is registered already keeps its channel array.
NewUniverse_Mutant(universeId, adapterId) ==
    [id |-> universeId, adapterId |-> adapterId,
     number |-> Cardinality(DOMAIN universes),
     channels |-> IF universeId \in DOMAIN universes THEN universes[universeId].channels
                  ELSE ArrayNew(NumChannels),
     status |-> "CONNECTED", lastUpdate |-> now]

\* The record connectUniverse builds (lines 69-77).
NewUniverse(universeId, adapterId) ==
    [id |-> universeId, adapterId |-> adapterId,
     number |-> Cardinality(DOMAIN universes),
     channels |-> ArrayNew(NumChannels), status |-> "CONNECTED",
     lastUpdate |-> now]

\* Mutant: the test looks at every adapter there is, discovered or not.
AdapterNotFound_Mutant(adapterId) == adapterId \notin KnownAdapters

\* Mutant: a controller that has discovered nothing takes any adapter id.
AdapterNotFound_EmptyMutant(adapterId) == dmxAdapters # {} /\ adapterId \notin dmxAdapters

\* `!this.dmxAdapters.find(a => a.id === adapterId)` (line 65).
AdapterNotFound(adapterId) == adapterId \notin dmxAdapters

ConnectUniverse(universeId, adapterId) ==
    /\ IF AdapterNotFound(adapterId)
         THEN /\ ret' = Threw("connectUniverse", "AdapterNotFound")
              /\ emitted' = <<>>
              /\ UNCHANGED <<universes, held>>
       ELSE /\ universes' = (universeId :> NewUniverse(universeId, adapterId)) @@ universes
            /\ ret' = Returned("connectUniverse")
            /\ emitted' = <<"universeConnected">>
            /\ held' = Detached(universeId)
    /\ UNCHANGED <<dmxAdapters, fixtures, scenes, effectVars, now, frame>>

(* ---------------------------- Frame Encoder --------------------------- *)

\* Storing a number into a Buffer keeps its low 8 bits.
ToUint8(v) == v % 256

\* The buffer getDMXBuffer fills (lines 564-569): buffer[0] = 0 and
\* buffer[i + 1] = universe.channels[i] for i < 512.  Copying an element that is
\* 0 or undefined leaves the zero-filled byte as it is.
RECURSIVE CopyBytes(_, _, _)
CopyBytes(buffer, channels, todo) ==
    IF todo = {} THEN buffer
    ELSE LET i == CHOOSE k \in todo : \A j \in todo : k <= j
         IN CopyBytes(ArraySet(buffer, i + 1, ToUint8(channels.nz[i])), channels,
                      todo \ {i})

\* Mutant: the loop stops one element early.
Encode_Mutant(channels) ==
    CopyBytes(ArraySet(ArrayNew(FrameLength), 0, 0), channels,
              {i \in DOMAIN channels.nz : i >= 0 /\ i < NumChannels - 1})

Encode(channels) ==
    CopyBytes(ArraySet(ArrayNew(FrameLength), 0, 0), channels,
              {i \in DOMAIN channels.nz : i >= 0 /\ i < NumChannels})

GetDMXBuffer(universeId) ==
    /\ IF universeId \notin DOMAIN universes
         THEN /\ ret' = Threw("getDMXBuffer", "UniverseNotFound")
              /\ UNCHANGED frame
       ELSE /\ frame' = Encode(universes[universeId].channels)
            /\ ret' = Returned("getDMXBuffer")
    /\ emitted' = <<>>
    /\ UNCHANGED <<dmxAdapters, universes, fixtures, scenes, effectVars, now, held>>

(* ----------------------------- Fixture Map ---------------------------- *)

\* `${universeId}-${fixtureName}`
FixtureId(universeId, fixtureName) == <<universeId, fixtureName>>

SetFixtureMapping(universeId, fixtureName, startChannel, channels) ==
    /\ fixtures' = (FixtureId(universeId, fixtureName) :>
                      [id |-> FixtureId(universeId, fixtureName),
                       name |-> fixtureName, universeId |-> universeId,
                       startChannel |-> startChannel, channels |-> channels,
                       currentValues |-> [i \in 1..channels |-> 0]]) @@ fixtures
    /\ ret' = Returned("setFixtureMapping")
    /\ emitted' = <<"fixtureAdded">>
    /\ UNCHANGED <<dmxAdapters, universes, scenes, effectVars, now, frame, held>>

\* The {channel: value} object controlFixture builds (lines 223-228) from the
\* values, a sequence here: values[i + 1] is the source's Object.values(values)[i].
FixtureChannels(fixture, values) ==
    [ch \in {fixture.startChannel - 1 + i : i \in 0..(Len(values) - 1)} |->
        values[ch - (fixture.startChannel - 1) + 1]]

ControlFixture(fixtureId, values) ==
    /\ IF fixtureId \notin DOMAIN fixtures
         THEN /\ ret' = Threw("controlFixture", "FixtureNotFound")
              /\ emitted' = <<>>
              /\ UNCHANGED <<universes, fixtures>>
       ELSE IF fixtures[fixtureId].universeId \notin DOMAIN universes
         THEN /\ ret' = Threw("controlFixture", "UniverseNotFound")
              /\ emitted' = <<>>
              /\ UNCHANGED <<universes, fixtures>>
       ELSE /\ universes' = WriteChannels(universes, fixtures[fixtureId].universeId,
                                FixtureChannels(fixtures[fixtureId], values), now)
            /\ fixtures' = [fixtures EXCEPT ![fixtureId].currentValues = values]
            /\ ret' = Returned("controlFixture")
            /\ emitted' = <<"channelsChanged", "fixtureControlled">>
    /\ UNCHANGED <<dmxAdapters, scenes, effectVars, now, frame, held>>

(* ----------------------------- Scene Store ---------------------------- *)

\* `scene-${Date.now()}`
SceneId(t) == <<"scene", t>>

\* sceneData is the sequence of the object's entries <<universeId, updates>>, in
\* the order Object.entries yields them.
SaveScene(name, sceneData) ==
    /\ scenes' = (SceneId(now) :> [id |-> SceneId(now), name |-> name,
                                   data |-> sceneData]) @@ scenes
    /\ ret' = Returned("saveScene")
    /\ emitted' = <<"sceneSaved">>
    /\ UNCHANGED <<dmxAdapters, universes, fixtures, effectVars, now, frame, held>>

\* Mutant: the loop applies the first entry only.
LoadEntries_Mutant(unis, data, n, t) ==
    IF n = 0 THEN unis ELSE WriteChannels(unis, data[1][1], data[1][2], t)

\* The universes after loadScene's loop (lines 280-282) ran over the first n
\* entries; the loop stops at the first entry whose universe does not exist.
RECURSIVE LoadEntries(_, _, _, _)
LoadEntries(unis, data, n, t) ==
    IF n = 0 THEN unis
    ELSE LET before == LoadEntries(unis, data, n - 1, t)
         IN WriteChannels(before, data[n][1], data[n][2], t)

\* Number of entries applied before setChannels throws (all of them if none does).
LoadedPrefix(data) ==
    IF \E k \in 1..Len(data) : data[k][1] \notin DOMAIN universes
    THEN (CHOOSE k \in 1..Len(data) :
             /\ data[k][1] \notin DOMAIN universes
             /\ \A j \in 1..(k - 1) : data[j][1] \in DOMAIN universes) - 1
    ELSE Len(data)

LoadScene(sceneId) ==
    /\ IF sceneId \notin DOMAIN scenes
         THEN /\ ret' = Threw("loadScene", "SceneNotFound")
              /\ emitted' = <<>>
              /\ UNCHANGED universes
       ELSE LET data == scenes[sceneId].data
                n == LoadedPrefix(data)
            IN /\ universes' = LoadEntries(universes, data, n, now)
               /\ IF n = Len(data)
                    THEN /\ ret' = Returned("loadScene")
                         /\ emitted' = [i \in 1..(n + 1) |->
                                IF i <= n THEN "channelsChanged" ELSE "sceneLoaded"]
                    ELSE /\ ret' = Threw("loadScene", "UniverseNotFound")
                         /\ emitted' = [i \in 1..n |-> "channelsChanged"]
    /\ UNCHANGED <<dmxAdapters, fixtures, scenes, effectVars, now, frame, held>>

DeleteScene(sceneId) ==
    /\ scenes' = [s \in DOMAIN scenes \ {sceneId} |-> scenes[s]]
    /\ ret' = [Returned("deleteScene") EXCEPT !.ok = sceneId \in DOMAIN scenes]
    /\ emitted' = IF sceneId \in DOMAIN scenes THEN <<"sceneDeleted">> ELSE <<>>
    /\ UNCHANGED <<dmxAdapters, universes, fixtures, effectVars, now, frame, held>>

(* ---------------------------- Effect Engine --------------------------- *)

\* `fade-${Date.now()}`, `chase-${Date.now()}`, `strobe-${Date.now()}`
EffectId(prefix, t) == <<prefix, t>>

\* The effect object of one start call together with the setInterval timer
\* closed over it: cleared is clearInterval having been called, step and isOn
\* are the closure's locals, due is the earliest time of the next callback.
\* running is {} while the object has no such field (a fade before any stop).
NewEffect(prefix, type, universeId, period) ==
    [id |-> EffectId(prefix, now), type |-> type, universeId |-> universeId,
     channels |-> <<>>, channelGroups |-> <<>>, targetValue |-> 0,
     duration |-> {}, startTime |-> now, startValues |-> <<>>,
     running |-> {}, cleared |-> FALSE, step |-> 0, isOn |-> FALSE,
     period |-> period, due |-> now + period]

\* this.effects.set(effectId, effect); this.activeEffects.add(effectId); setInterval(...)
Register(effect) ==
    /\ intervals' = Append(intervals, effect)
    /\ effects' = (effect.id :> (Len(intervals) + 1)) @@ effects
    /\ activeEffects' = activeEffects \cup {effect.id}

\* Mutant: the fade records no start values and starts from 0.
StartValues_Mutant(universe, channels) == [i \in 1..Len(channels) |-> {0}]

\* channels.map(ch => universe.channels[ch - 1]) (line 317).
StartValues(universe, channels) ==
    [i \in 1..Len(channels) |->
        ArrayGet(universe.channels, channels[i] - 1)]

StartFade(universeId, channels, targetValue, duration) ==
    /\ IF universeId \notin DOMAIN universes
         THEN /\ ret' = Threw("startFade", "UniverseNotFound")
              /\ emitted' = <<>>
              /\ UNCHANGED effectVars
       ELSE /\ Register([NewEffect("fade", "FADE", universeId, FadeIntervalMs) EXCEPT
                            !.channels = channels,
                            !.targetValue = targetValue,
                            !.duration = {duration},
                            !.startValues = StartValues(universes[universeId], channels)])
            /\ ret' = [Returned("startFade") EXCEPT !.effectId = EffectId("fade", now)]
            /\ emitted' = <<"fadeStarted">>
    /\ UNCHANGED <<dmxAdapters, universes, fixtures, scenes, now, frame, held>>

StartChase(universeId, channelGroups, speed) ==
    /\ Register([NewEffect("chase", "CHASE", universeId, speed) EXCEPT
                    !.channelGroups = channelGroups,
                    !.running = {TRUE}])
    /\ ret' = [Returned("startChase") EXCEPT !.effectId = EffectId("chase", now)]
    /\ emitted' = <<"chaseStarted">>
    /\ UNCHANGED <<dmxAdapters, universes, fixtures, scenes, now, frame, held>>

\* 1000 / (frequency * 2) (line 416), for the frequencies that divide 500.
StrobePeriod(frequency) == 1000 \div (frequency * 2)

\* duration is {} when the caller gives none (the parameter defaults to Infinity).
StartStrobe(universeId, channels, frequency, duration) ==
    /\ Register([NewEffect("strobe", "STROBE", universeId, StrobePeriod(frequency)) EXCEPT
                    !.channels = channels,
                    !.duration = duration,
                    !.running = {TRUE}])
    /\ ret' = [Returned("startStrobe") EXCEPT !.effectId = EffectId("strobe", now)]
    /\ emitted' = <<"strobeStarted">>
    /\ UNCHANGED <<dmxAdapters, universes, fixtures, scenes, now, frame, held>>

\* Math.floor(num / den) for den # 0.
FloorDiv(num, den) == IF den > 0 THEN num \div den ELSE (-num) \div (-den)

\* progress >= 1 (line 337), for progress = Math.min(elapsed / duration, 1).
FadeDone(elapsed, duration) ==
    IF duration > 0 THEN elapsed >= duration ELSE duration = 0 /\ elapsed > 0

\* Mutant: progress is elapsed / duration without Math.min(..., 1).
FadeValue_Mutant(startVal, targetValue, elapsed, duration) ==
    IF startVal = {} \/ (duration = 0 /\ elapsed = 0) THEN {}
    ELSE LET s == CHOOSE v \in startVal : TRUE
         IN {FloorDiv(2 * s * duration + 2 * (targetValue - s) * elapsed + duration,
                      2 * duration)}

\* Mutant: Math.floor instead of Math.round.
FadeValue_FloorMutant(startVal, targetValue, elapsed, duration) ==
    IF startVal = {} \/ (duration = 0 /\ elapsed = 0) THEN {}
    ELSE LET s == CHOOSE v \in startVal : TRUE
         IN IF FadeDone(elapsed, duration) THEN {targetValue}
            ELSE {FloorDiv(s * duration + (targetValue - s) * elapsed, duration)}

\* Math.round(startVal + (targetValue - startVal) * progress) (line 331), {} when
\* it is NaN: the start value is undefined, or progress is 0 / 0.  Math.round(x)
\* is Math.floor(x + 1/2).
FadeValue(startVal, targetValue, elapsed, duration) ==
    IF startVal = {} \/ (duration = 0 /\ elapsed = 0) THEN {}
    ELSE LET s == CHOOSE v \in startVal : TRUE
         IN IF FadeDone(elapsed, duration) THEN {targetValue}
            ELSE {FloorDiv(2 * s * duration + 2 * (targetValue - s) * elapsed + duration,
                           2 * duration)}

\* The updates object of one fade callback (lines 328-333).  A channel listed
\* twice keeps the value of its last index.  An entry whose value is NaN is left
\* out: setChannels skips it, every comparison with NaN being false.
FadeUpdates(effect, elapsed) ==
    LET n == Len(effect.channels)
        last(k) == CHOOSE i \in 1..n :
                      /\ effect.channels[i] = k
                      /\ \A j \in (i + 1)..n : effect.channels[j] # k
        val(k) == FadeValue(effect.startValues[last(k)], effect.targetValue, elapsed,
                            CHOOSE d \in effect.duration : TRUE)
    IN [k \in {c \in Range(effect.channels) : val(c) # {}} |-> CHOOSE v \in val(k) : TRUE]

\* Mutant: clearInterval does not keep the callback from running.
Due_Mutant(i) == i \in 1..Len(intervals) /\ now >= intervals[i].due

\* A timer whose callback the event loop may run now.
Due(i) == i \in 1..Len(intervals) /\ ~intervals[i].cleared /\ now >= intervals[i].due

\* The callback of startFade's setInterval (lines 324-342).
FadeTick(i) ==
    /\ Due(i)
    /\ intervals[i].type = "FADE"
    /\ LET effect == intervals[i]
           elapsed == now - effect.startTime
           done == FadeDone(elapsed, CHOOSE d \in effect.duration : TRUE)
       IN IF effect.universeId \notin DOMAIN universes
            THEN /\ ret' = Threw("fadeTick", "UniverseNotFound")
                 /\ emitted' = <<>>
                 /\ intervals' = [intervals EXCEPT ![i].due = now + effect.period]
                 /\ UNCHANGED <<universes, activeEffects>>
          ELSE /\ universes' = WriteChannels(universes, effect.universeId,
                                             FadeUpdates(effect, elapsed), now)
               /\ ret' = Returned("fadeTick")
               /\ intervals' = [intervals EXCEPT ![i].due = now + effect.period,
                                                 ![i].cleared = done]
               /\ activeEffects' = IF done THEN activeEffects \ {effect.id}
                                   ELSE activeEffects
               /\ emitted' = IF done THEN <<"channelsChanged", "fadeComplete">>
                             ELSE <<"channelsChanged">>
    /\ UNCHANGED <<dmxAdapters, fixtures, scenes, effects, now, frame, held>>

\* channelGroups.flat()
Flat(channelGroups) == UNION {Range(channelGroups[g]) : g \in 1..Len(channelGroups)}

\* Mutant: the callback writes the all-off batch and leaves the lit group out.
ChaseUpdates_Mutant(channelGroups, step) == [ch \in Flat(channelGroups) |-> 0]

\* The updates object of one chase callback (lines 383-392).
ChaseUpdates(channelGroups, step) ==
    LET on == Range(channelGroups[(step % Len(channelGroups)) + 1])
    IN [ch \in Flat(channelGroups) \cup on |-> IF ch \in on THEN 255 ELSE 0]

\* Mutant: the callback never looks at the running flag.
ChaseStopped_Mutant(effect) == FALSE

\* `!effect.running` (line 376).
ChaseStopped(effect) == effect.running # {TRUE}

\* The callback of startChase's setInterval (lines 375-396).
ChaseTick(i) ==
    /\ Due(i)
    /\ intervals[i].type = "CHASE"
    /\ LET effect == intervals[i]
       IN IF ChaseStopped(effect)
            THEN /\ intervals' = [intervals EXCEPT ![i].cleared = TRUE]
                 /\ activeEffects' = activeEffects \ {effect.id}
                 /\ ret' = Returned("chaseTick")
                 /\ emitted' = <<>>
                 /\ UNCHANGED universes
          ELSE IF Len(effect.channelGroups) = 0
            \* channelGroups[NaN] is undefined and not iterable
            THEN /\ ret' = Threw("chaseTick", "TypeError")
                 /\ emitted' = <<>>
                 /\ intervals' = [intervals EXCEPT ![i].due = now + effect.period]
                 /\ UNCHANGED <<universes, activeEffects>>
          ELSE IF effect.universeId \notin DOMAIN universes
            THEN /\ ret' = Threw("chaseTick", "UniverseNotFound")
                 /\ emitted' = <<>>
                 /\ intervals' = [intervals EXCEPT ![i].due = now + effect.period]
                 /\ UNCHANGED <<universes, activeEffects>>
          ELSE /\ universes' = WriteChannels(universes, effect.universeId,
                                   ChaseUpdates(effect.channelGroups, effect.step), now)
               /\ intervals' = [intervals EXCEPT ![i].due = now + effect.period,
                                                 ![i].step = @ + 1]
               /\ ret' = Returned("chaseTick")
               /\ emitted' = <<"channelsChanged">>
               /\ UNCHANGED activeEffects
    /\ UNCHANGED <<dmxAdapters, fixtures, scenes, effects, now, frame, held>>

\* Mutant: the callback writes 255 whatever isOn is.
StrobeUpdates_Mutant(channels, isOn) == [ch \in Range(channels) |-> 255]

\* The updates object of one strobe callback (lines 441-445).
StrobeUpdates(channels, isOn) ==
    [ch \in Range(channels) |-> IF isOn THEN 255 ELSE 0]

\* The callback of startStrobe's setInterval (lines 432-449).
StrobeTick(i) ==
    /\ Due(i)
    /\ intervals[i].type = "STROBE"
    /\ LET effect == intervals[i]
           elapsed == now - effect.startTime
       IN IF \E d \in effect.duration : elapsed > d
            THEN /\ intervals' = [intervals EXCEPT ![i].cleared = TRUE]
                 /\ activeEffects' = activeEffects \ {effect.id}
                 /\ ret' = Returned("strobeTick")
                 /\ emitted' = <<"strobeComplete">>
                 /\ UNCHANGED universes
          ELSE IF effect.universeId \notin DOMAIN universes
            THEN /\ ret' = Threw("strobeTick", "UniverseNotFound")
                 /\ emitted' = <<>>
                 /\ intervals' = [intervals EXCEPT ![i].due = now + effect.period]
                 /\ UNCHANGED <<universes, activeEffects>>
          ELSE /\ universes' = WriteChannels(universes, effect.universeId,
                                   StrobeUpdates(effect.channels, effect.isOn), now)
               /\ intervals' = [intervals EXCEPT ![i].due = now + effect.period,
                                                 ![i].isOn = ~@]
               /\ ret' = Returned("strobeTick")
               /\ emitted' = <<"channelsChanged">>
               /\ UNCHANGED activeEffects
    /\ UNCHANGED <<dmxAdapters, fixtures, scenes, effects, now, frame, held>>

\* The universe's active effects as getUniverseStatus counts them (lines 517-519).
ActiveEffectCount(universeId) ==
    Cardinality({id \in activeEffects : intervals[effects[id]].universeId = universeId})

\* The object getUniverseStatus builds for a registered universe (lines 511-520).
UniverseStatus(universeId) ==
    [id |-> universes[universeId].id,
     status |-> universes[universeId].status,
     channels |-> universes[universeId].channels,
     lastUpdate |-> universes[universeId].lastUpdate,
     fixtures |-> Cardinality({f \in DOMAIN fixtures : fixtures[f].universeId = universeId}),
     activeEffects |-> ActiveEffectCount(universeId)]

\* Mutant: an unknown universe is reported as a disconnected, empty one.
StatusOf_Mutant(universeId) ==
    IF universeId \in DOMAIN universes THEN {UniverseStatus(universeId)}
    ELSE {[id |-> universeId, status |-> "DISCONNECTED", channels |-> ArrayNew(NumChannels),
           lastUpdate |-> 0, fixtures |-> 0, activeEffects |-> 0]}

\* What getUniverseStatus returns (lines 506-520): {} is null.
StatusOf(universeId) ==
    IF universeId \in DOMAIN universes THEN {UniverseStatus(universeId)} ELSE {}

\* getUniverseStatus, which never throws; its caller, the handler of
\* 'get-dmx-universe-status', answers {success: true, status}.
GetUniverseStatus(universeId) ==
    /\ ret' = [Returned("getUniverseStatus") EXCEPT !.status = StatusOf(universeId)]
    /\ emitted' = <<>>
    /\ UNCHANGED <<dmxAdapters, universes, fixtures, scenes, effectVars, now, frame, held>>

\* A caller keeps status.channels of the status object it was just returned:
\* the universe's own array (`channels: universe.channels`, line 514).
KeepChannels ==
    /\ ret.op = "getUniverseStatus"
    /\ \E st \in ret.status :
          held' = {[universeId |-> st.id, live |-> TRUE, channels |-> ArrayNew(0)]}
    /\ UNCHANGED <<dmxAdapters, universes, fixtures, scenes, effectVars, now, frame, ret,
                   emitted>>

\* The elements of the array the caller kept.
HeldChannels ==
    LET h == CHOOSE x \in held : TRUE
    IN IF h.live THEN universes[h.universeId].channels ELSE h.channels

\* The caller assigns value to element index of the array it kept.
CallerWrites(index, value) ==
    /\ \E h \in held :
          IF h.live
            THEN /\ universes' = [universes EXCEPT
                                    ![h.universeId].channels = ArraySet(@, index, value)]
                 /\ UNCHANGED held
            ELSE /\ held' = {[h EXCEPT !.channels = ArraySet(@, index, value)]}
                 /\ UNCHANGED universes
    /\ UNCHANGED <<dmxAdapters, fixtures, scenes, effectVars, now, frame, ret, emitted>>

\* The run state of an effect object: STOPPED once a stop set running to false,
\* COMPLETED once its callback cleared the timer at its natural end.
RunState(effect) ==
    IF effect.running = {FALSE} THEN "STOPPED"
    ELSE IF effect.cleared THEN "COMPLETED"
    ELSE "RUNNING"

\* effect.running = false on the effect objects the ids map to.
MarkStopped(ids) ==
    [i \in 1..Len(intervals) |->
        IF \E id \in ids : id \in DOMAIN effects /\ effects[id] = i
        THEN [intervals[i] EXCEPT !.running = {FALSE}]
        ELSE intervals[i]]

StopEffect(effectId) ==
    /\ intervals' = MarkStopped({effectId})
    /\ activeEffects' = IF effectId \in DOMAIN effects THEN activeEffects \ {effectId}
                        ELSE activeEffects
    /\ ret' = Returned("stopEffect")
    /\ emitted' = <<>>
    /\ UNCHANGED <<dmxAdapters, universes, fixtures, scenes, effects, now, frame, held>>

\* The active effects stopAllEffects' loop stops (lines 465-471); filter is {}
\* for a null universeId and {universeId} otherwise.
StoppedByAll(filter) ==
    {id \in activeEffects :
        filter = {} \/ intervals[effects[id]].universeId \in filter}

StopAllEffects(filter) ==
    /\ intervals' = MarkStopped(StoppedByAll(filter))
    /\ activeEffects' = activeEffects \ StoppedByAll(filter)
    /\ ret' = Returned("stopAllEffects")
    /\ emitted' = <<"effectsStopped">>
    /\ UNCHANGED <<dmxAdapters, universes, fixtures, scenes, effects, now, frame, held>>

\* Mutant: disconnecting blacks the universe out.
Disconnected_Mutant(universe) ==
    [universe EXCEPT !.status = "DISCONNECTED", !.channels = ArrayNew(NumChannels)]

\* universe.status = 'DISCONNECTED' (line 541).
Disconnected(universe) == [universe EXCEPT !.status = "DISCONNECTED"]

DisconnectUniverse(universeId) ==
    /\ intervals' = MarkStopped(StoppedByAll({universeId}))
    /\ activeEffects' = activeEffects \ StoppedByAll({universeId})
    /\ IF universeId \in DOMAIN universes
         THEN /\ universes' = [universes EXCEPT ![universeId] = Disconnected(@)]
              /\ emitted' = <<"effectsStopped", "universeDisconnected">>
         ELSE /\ emitted' = <<"effectsStopped">>
              /\ UNCHANGED universes
    /\ ret' = Returned("disconnectUniverse")
    /\ UNCHANGED <<dmxAdapters, fixtures, scenes, effects, now, frame, held>>

(* -------------------------------- time -------------------------------- *)

\* Date.now() moves on.
Advance ==
    /\ now' = now + TickMs
    /\ UNCHANGED <<dmxAdapters, universes, fixtures, scenes, effectVars, frame, held, ret,
                   emitted>>

(* --------------------------- specification ---------------------------- *)

\* The controller as its constructor leaves it (lines 9-17).
Init ==
    /\ dmxAdapters = {}
    /\ universes = <<>>
    /\ fixtures = <<>>
    /\ scenes = <<>>
    /\ effects = <<>>
    /\ activeEffects = {}
    /\ intervals = <<>>
    /\ now = 0
    /\ frame = NoFrame
    /\ ret = Returned("constructor")
    /\ emitted = <<>>
    /\ held = NotHeld

\* The controller after getAvailableAdapters() and connectUniverse("u1",
\* "dmx-king-1") on a new controller: one connected universe, all channels 0.
InitConnected ==
    /\ dmxAdapters = KnownAdapters
    /\ universes = ("u1" :> [id |-> "u1", adapterId |-> "dmx-king-1", number |-> 0,
                             channels |-> ArrayNew(NumChannels), status |-> "CONNECTED",
                             lastUpdate |-> 0])
    /\ fixtures = <<>>
    /\ scenes = <<>>
    /\ effects = <<>>
    /\ activeEffects = {}
    /\ intervals = <<>>
    /\ now = 0
    /\ frame = NoFrame
    /\ ret = Returned("connectUniverse")
    /\ emitted = <<"universeConnected">>
    /\ held = NotHeld

\* The guards that keep a run finite: the clock stops after MaxClock advances and
\* no more than MaxEffects effects are started.
ClockLeft == now < MaxClock * TickMs
EffectsLeft == Len(intervals) < MaxEffects
StartsLeft == Len(intervals) < MaxStarts

\* Every effect id a start at some time of the run can have produced.
EffectIdInputs(prefixes) ==
    {EffectId(p, t * TickMs) : p \in prefixes, t \in 0..MaxClock}

Tick(i) == FadeTick(i) \/ ChaseTick(i) \/ StrobeTick(i)

(***************************************************************************)
(* SpecChase: chases on one universe, started, ticked and stopped, beside  *)
(* a direct writer.                                                        *)
(***************************************************************************)

NextChase ==
    \/ SetChannel("u1", 1, 200)
    \/ EffectsLeft /\ \E g \in {<< <<1>>, <<2>> >>, << <<1, 2>> >>} : StartChase("u1", g, 50)
    \/ \E i \in 1..MaxEffects : ChaseTick(i)
    \/ \E id \in EffectIdInputs({"chase"}) : StopEffect(id)
    \/ ClockLeft /\ Advance

SpecChase == InitConnected /\ [][NextChase]_vars

\* C2: a chase that stop(effectId) has stopped writes nothing any more: every
\* later callback of its timer leaves the universes, and so every channel array,
\* as they are, so that with no other writer a snapshot taken after stop equals
\* every later snapshot.
C2_StoppedChaseWritesNothing ==
    [][\A i \in 1..Len(intervals) :
          (intervals[i].type = "CHASE" /\ intervals[i].running = {FALSE} /\ ChaseTick(i))
              => universes' = universes]_vars

\* A chase that wrote, was stopped, and whose timer then ran once more.
C2_Witness ==
    \E i \in 1..Len(intervals) :
        /\ intervals[i].type = "CHASE"
        /\ intervals[i].step >= 1
        /\ intervals[i].running = {FALSE}
        /\ intervals[i].cleared
        /\ "u1" \in DOMAIN universes
        /\ ChannelValue(universes["u1"].channels, 1) = 255

(***************************************************************************)
(* SpecEffects: fades, chases and strobes on one connected universe, with  *)
(* every way of cancelling them.                                           *)
(***************************************************************************)

NextEffects ==
    \/ EffectsLeft /\ StartFade("u1", <<1>>, 200, 100)
    \/ EffectsLeft /\ StartChase("u1", << <<1>>, <<2>> >>, 50)
    \/ EffectsLeft /\ StartStrobe("u1", <<2>>, 10, {})
    \/ \E i \in 1..MaxEffects : FadeTick(i)
    \/ \E i \in 1..MaxEffects : ChaseTick(i)
    \/ \E i \in 1..MaxEffects : StrobeTick(i)
    \/ \E id \in EffectIdInputs({"fade", "chase", "strobe"}) : StopEffect(id)
    \/ \E f \in {{}, {"u1"}} : StopAllEffects(f)
    \/ DisconnectUniverse("u1")
    \/ ClockLeft /\ Advance

SpecEffects == InitConnected /\ [][NextEffects]_vars

\* C1: once stop, stopAll or disconnect has returned, the effect it cancelled
\* (fade, chase or strobe) writes to no universe any more: every later callback
\* of its timer leaves the universes as they are.
C1_CancelledEffectWritesNothing ==
    [][\A i \in 1..Len(intervals) :
          (intervals[i].running = {FALSE} /\ Tick(i)) => universes' = universes]_vars

\* C3: when disconnect(u) returns, u has no active effect and every effect of u
\* that was running reports STOPPED.
C3_DisconnectCascade ==
    [][\A u \in UniverseIds :
          DisconnectUniverse(u) =>
              /\ ActiveEffectCount(u)' = 0
              /\ \A i \in 1..Len(intervals) :
                    (intervals[i].universeId = u /\ RunState(intervals[i]) = "RUNNING")
                        => RunState(intervals'[i]) = "STOPPED"]_vars

(***************************************************************************)
(* SpecUnconnected: the operations that name a universe, on a universe     *)
(* that was never connected ("u2") and on one that is connected and        *)
(* disconnected ("u1").  The clock stands still, so no timer comes due.    *)
(***************************************************************************)

\* The channel, fixture, effect and frame operations naming universe u.
UniverseOp(u) ==
    \/ SetChannel(u, 1, 200)
    \/ SetChannels(u, (5 :> 100) @@ (9 :> 200))
    \/ SetFixtureMapping(u, "par", 1, 2)
    \/ FixtureId(u, "par") \in DOMAIN fixtures /\ ControlFixture(FixtureId(u, "par"), <<200, 255>>)
    \/ StartsLeft /\ StartFade(u, <<1>>, 200, 100)
    \/ StartsLeft /\ StartChase(u, << <<1>>, <<2>> >>, 50)
    \/ StartsLeft /\ StartStrobe(u, <<2>>, 10, {})
    \/ GetDMXBuffer(u)

NextUnconnected ==
    \/ GetAvailableAdapters
    \/ ConnectUniverse("u1", "dmx-king-1")
    \/ DisconnectUniverse("u1")
    \/ \E u \in UniverseIds : UniverseOp(u)

SpecUnconnected == Init /\ [][NextUnconnected]_vars

\* The universe is registered and its status is CONNECTED.
IsConnected(universeId) ==
    universeId \in DOMAIN universes /\ universes[universeId].status = "CONNECTED"

\* C4: an operation naming a universe that is not connected (never connected, or
\* disconnected) fails with UniverseNotFound and changes no state.
C4_UnconnectedUniverseRefused ==
    [][\A u \in UniverseIds :
          (~IsConnected(u) /\ UniverseOp(u)) =>
              /\ ~ret'.ok
              /\ ret'.error = "UniverseNotFound"
              /\ UNCHANGED <<dmxAdapters, universes, fixtures, scenes, effects,
                             activeEffects, intervals, frame, held>>]_vars

(***************************************************************************)
(* SpecStore: connecting and disconnecting, and direct channel writes,     *)
(* valid and invalid, on a registered and on an unknown universe, while    *)
(* the clock moves.                                                        *)
(***************************************************************************)

NextStore ==
    \/ GetAvailableAdapters
    \/ \E a \in AdapterInputs : ConnectUniverse("u1", a)
    \/ \E u \in UniverseIds, c \in ChannelInputs, v \in ValueInputs : SetChannel(u, c, v)
    \/ \E u \in UniverseIds : DisconnectUniverse(u)
    \/ \E u \in UniverseIds : GetUniverseStatus(u)
    \/ ClockLeft /\ Advance

SpecStore == Init /\ [][NextStore]_vars

\* C5: setChannel(u, c, v) on a connected universe with c outside [1,512] fails
\* with ChannelOutOfRange and leaves the channel array of u as it was.
C5_ChannelOutOfRangeRefused ==
    [][\A u \in UniverseIds, c \in ChannelInputs, v \in ValueInputs :
          (IsConnected(u) /\ c \notin 1..512 /\ SetChannel(u, c, v)) =>
              /\ ~ret'.ok
              /\ ret'.error = "ChannelOutOfRange"
              /\ universes'[u].channels = universes[u].channels]_vars

\* A channel number outside the range was refused on a universe holding values.
C5_Witness ==
    /\ ret = Threw("setChannel", "ChannelOutOfRange")
    /\ IsConnected("u1")
    /\ ChannelValue(universes["u1"].channels, 512) = 255

\* C6: setChannel(u, c, v) on a connected universe with a valid channel and v
\* outside [0,255] fails with ValueOutOfRange and changes nothing: not the channel
\* array, not lastUpdate, and no channelChanged event is emitted.
C6_ValueOutOfRangeRefused ==
    [][\A u \in UniverseIds, c \in ChannelInputs, v \in ValueInputs :
          (IsConnected(u) /\ c \in 1..512 /\ v \notin 0..255 /\ SetChannel(u, c, v)) =>
              /\ ~ret'.ok
              /\ ret'.error = "ValueOutOfRange"
              /\ universes' = universes
              /\ "channelChanged" \notin Range(emitted')]_vars

\* A value outside the range was refused at a time later than the last write.
C6_Witness ==
    /\ ret = Threw("setChannel", "ValueOutOfRange")
    /\ IsConnected("u1")
    /\ universes["u1"].lastUpdate < now
    /\ ChannelValue(universes["u1"].channels, 1) = 200

(***************************************************************************)
(* SpecWriters: every path that writes channel values, interleaved on one  *)
(* connected universe that has a fixture and a saved scene, fed with       *)
(* values and channels inside and outside their ranges.                    *)
(***************************************************************************)

WriterSceneId == SceneId(0)

\* The controller after getAvailableAdapters(), connectUniverse("u1",
\* "dmx-king-1"), setFixtureMapping("u1", "spot", 512, 2) and a saveScene, all at
\* time 0: the fixture reaches past channel 512 and the scene holds a value and a
\* channel out of range.
InitWriters ==
    /\ dmxAdapters = KnownAdapters
    /\ universes = ("u1" :> [id |-> "u1", adapterId |-> "dmx-king-1", number |-> 0,
                             channels |-> ArrayNew(NumChannels), status |-> "CONNECTED",
                             lastUpdate |-> 0])
    /\ fixtures = (FixtureId("u1", "spot") :>
                      [id |-> FixtureId("u1", "spot"), name |-> "spot",
                       universeId |-> "u1", startChannel |-> 512, channels |-> 2,
                       currentValues |-> <<0, 0>>])
    /\ scenes = (WriterSceneId :>
                    [id |-> WriterSceneId, name |-> "scene",
                     data |-> << <<"u1", (1 :> 300) @@ (2 :> 200) @@ (600 :> 5)>> >>])
    /\ effects = <<>>
    /\ activeEffects = {}
    /\ intervals = <<>>
    /\ now = 0
    /\ frame = NoFrame
    /\ ret = Returned("saveScene")
    /\ emitted = <<"sceneSaved">>
    /\ held = NotHeld

NextWriters ==
    \/ \E w \in {<<1, 256>>, <<513, 255>>, <<2, 255>>} : SetChannel("u1", w[1], w[2])
    \/ SetChannels("u1", (0 :> 10) @@ (1 :> 256) @@ (2 :> 255) @@ (513 :> 1))
    \/ ControlFixture(FixtureId("u1", "spot"), <<300, 255>>)
    \/ LoadScene(WriterSceneId)
    \/ StartsLeft /\ \E d \in {100, -100} : StartFade("u1", <<1, 513>>, 300, d)
    \/ StartsLeft /\ StartChase("u1", << <<1>>, <<0, 513>> >>, 50)
    \/ StartsLeft /\ StartStrobe("u1", <<2, 600>>, 10, {})
    \/ \E i \in 1..MaxStarts : FadeTick(i)
    \/ \E i \in 1..MaxStarts : ChaseTick(i)
    \/ \E i \in 1..MaxStarts : StrobeTick(i)
    \/ ClockLeft /\ Advance

SpecWriters == InitWriters /\ [][NextWriters]_vars

NextEncode ==
    \/ ConnectUniverse("u1", "dmx-king-1")
    \/ \E c \in {1, 512}, v \in {0, 255} : SetChannel("u1", c, v)
    \/ \E m \in UpdatesInputs : SetChannels("u1", m)
    \/ \E u \in UniverseIds : GetDMXBuffer(u)

SpecEncode == InitConnected /\ [][NextEncode]_vars

\* buffer[i] of a Buffer.
ByteAt(buffer, i) == CHOOSE b \in ArrayGet(buffer, i) : TRUE

\* C8: encode(u) of a connected universe returns 513 bytes, byte 0 being 0 and
\* byte i the value channel i has at the call, for i in 1..512; no other
\* operation changes a frame that was returned.
C8_FrameIsSnapshot ==
    [][/\ \A u \in UniverseIds :
             (IsConnected(u) /\ GetDMXBuffer(u)) =>
                 /\ ret'.ok
                 /\ frame'.length = 513
                 /\ ByteAt(frame', 0) = 0
                 /\ \A i \in 1..512 :
                       ByteAt(frame', i) = ChannelValue(universes[u].channels, i)
       /\ (~\E u \in UniverseIds : GetDMXBuffer(u)) => frame' = frame]_vars

\* A frame was returned and a channel it shows was written afterwards.
C8_Witness ==
    /\ frame # NoFrame
    /\ ByteAt(frame, 512) = 255
    /\ ByteAt(frame, 1) = 0
    /\ ChannelValue(universes["u1"].channels, 512) = 0

\* C9: setChannels(u, m) with every entry valid, on a freshly connected universe
\* (all channels 0), is read back by encode: the frame of the resulting state has
\* m[c] at byte c for every channel c in m and 0 at every other data byte.
C9_WriteEncodeRoundTrip ==
    [][\A u \in UniverseIds, m \in UpdatesInputs :
          (/\ IsConnected(u)
           /\ universes[u].channels = ArrayNew(512)
           /\ \A c \in DOMAIN m : c \in 1..512 /\ m[c] \in 0..255
           /\ SetChannels(u, m)) =>
              \A c \in 1..512 :
                  ByteAt(Encode(universes'[u].channels), c) =
                      IF c \in DOMAIN m THEN m[c] ELSE 0]_vars

\* setChannels({5: 100, 9: 200}) was applied to a universe that held only zeros,
\* and the frame encoded next shows it.
C9_Witness ==
    /\ ret = Returned("getDMXBuffer")
    /\ universes["u1"].channels = ArraySet(ArraySet(ArrayNew(512), 4, 100), 8, 200)
    /\ ByteAt(frame, 5) = 100
    /\ ByteAt(frame, 9) = 200

(***************************************************************************)
(* SpecFixture: fixtures defined on one universe and driven by value lists.*)
(***************************************************************************)

NextFixture ==
    \/ \E f \in FixtureInputs : SetFixtureMapping("u1", f[1], f[2], f[3])
    \/ \E id \in DOMAIN fixtures, values \in ValuesInputs : ControlFixture(id, values)
    \/ \E c \in {1, 2, 512} : SetChannel("u1", c, 0)
    \/ \E u \in UniverseIds : GetDMXBuffer(u)

SpecFixture == InitConnected /\ [][NextFixture]_vars

\* C10: control(fixtureId, orderedValues) writes orderedValues[i] to channel
\* startChannel + i of the fixture's universe for every index i counted from 0,
\* and leaves every other channel as it was (one value per fixture channel, each
\* in 0..255, the fixture inside 1..512).
C10_ControlWritesFromStartChannel ==
    [][\A id \in DOMAIN fixtures, values \in ValuesInputs :
          LET fixture == fixtures[id]
              before == universes[fixture.universeId].channels
              after == universes'[fixture.universeId].channels
          IN (/\ fixture.universeId \in DOMAIN universes
              /\ Len(values) = fixture.channels
              /\ fixture.startChannel >= 1
              /\ fixture.startChannel + fixture.channels - 1 <= 512
              /\ \A i \in 1..Len(values) : values[i] \in 0..255
              /\ ControlFixture(id, values)) =>
                 \A ch \in 1..512 :
                     ChannelValue(after, ch) =
                         IF ch - fixture.startChannel \in 0..(Len(values) - 1)
                           THEN values[ch - fixture.startChannel + 1]
                           ELSE ChannelValue(before, ch)]_vars

(***************************************************************************)
(* SpecScene: scenes saved, loaded and deleted beside direct writes; "u1"  *)
(* is connected, "u2" may be connected later.  The clock stands still, so  *)
(* every save produces the same scene id.                                  *)
(***************************************************************************)

NextScene ==
    \/ ConnectUniverse("u2", "dmx-king-1")
    \/ \E c \in {1, 2}, v \in {0, 255} : SetChannel("u1", c, v)
    \/ \E d \in SceneInputs : SaveScene("s1", d)
    \/ LoadScene(SceneId(now))
    \/ DeleteScene(SceneId(now))

SpecScene == InitConnected /\ [][NextScene]_vars

\* The entries of scene data whose universe is registered.
Existing(data) == {k \in 1..Len(data) : data[k][1] \in DOMAIN universes}

C12_LoadSkipsMissingUniverse ==
    [][\A id \in DOMAIN scenes :
          LET data == scenes[id].data
          IN LoadScene(id) =>
                /\ ret'.ok
                /\ \A k \in Existing(data) : \A ch \in ValidKeys(data[k][2]) :
                      ChannelValue(universes'[data[k][1]].channels, ch) = data[k][2][ch]]_vars

(***************************************************************************)
(* SpecFade: one fade over valid channels that nobody stops, beside a      *)
(* writer of another channel and a reader of frames.  The timer keeps      *)
(* firing and the clock keeps moving; the fade is started only while its   *)
(* end lies within the run's clock.                                        *)
(***************************************************************************)

FadeFits(duration) == now + duration <= MaxClock * TickMs

NextFade ==
    \/ Len(intervals) = 0 /\ SetChannel("u1", 1, 100)
    \/ SetChannel("u1", 2, 255)
    \/ Len(intervals) = 0 /\ \E target \in {200, 0}, d \in {75, 100} :
          FadeFits(d) /\ StartFade("u1", <<1, 512>>, target, d)
    \/ FadeTick(1)
    \/ GetDMXBuffer("u1")
    \/ ClockLeft /\ Advance

SpecFade ==
    /\ InitConnected
    /\ [][NextFade]_vars
    /\ WF_vars(ClockLeft /\ Advance)
    /\ WF_vars(FadeTick(1))

\* C13: a fade over channels in [1,512] with a target in [0,255] and a duration
\* > 0 that nobody stops eventually reaches COMPLETED, and when it does every
\* channel of the fade holds exactly the target value.
C13_FadeCompletesAtTarget ==
    /\ [][\A i \in 1..Len(intervals) :
             (RunState(intervals[i]) = "RUNNING" /\ RunState(intervals'[i]) = "COMPLETED") =>
                 \A c \in Range(intervals[i].channels) :
                     ChannelValue(universes'[intervals[i].universeId].channels, c) =
                         intervals[i].targetValue]_vars
    /\ (Len(intervals) = 1) ~> (Len(intervals) = 1 /\ RunState(intervals[1]) = "COMPLETED")

\* A fade from 100 to 200 over 75 ms completed late, at 100 ms, and the frame
\* sampled then shows the target on both of its channels.
C13_Witness ==
    /\ Len(intervals) >= 1
    /\ RunState(intervals[1]) = "COMPLETED"
    /\ intervals[1].duration = {75}
    /\ intervals[1].startValues = <<{100}, {0}>>
    /\ frame # NoFrame
    /\ ByteAt(frame, 1) = 200
    /\ ByteAt(frame, 512) = 200

\* C14: the run state of an effect only moves from RUNNING to COMPLETED or to
\* STOPPED and never changes afterwards, and the timer of a stopped effect never
\* reports a completion (no fadeComplete, no strobeComplete after the stop).
C14_RunStateFinal ==
    [][\A i \in 1..Len(intervals) :
          /\ RunState(intervals[i]) # "RUNNING" =>
                 RunState(intervals'[i]) = RunState(intervals[i])
          /\ (RunState(intervals[i]) = "STOPPED" /\ Tick(i)) =>
                 /\ "fadeComplete" \notin Range(emitted')
                 /\ "strobeComplete" \notin Range(emitted')]_vars

(***************************************************************************)
(* SpecFaulty: effects started with parameters that make no sense, and     *)
(* effects started on "u2", a universe that does not exist when they start *)
(* and that may be connected later.                                        *)
(***************************************************************************)

NextFaulty ==
    \/ StartsLeft /\ \E d \in {0, -100} : StartFade("u1", <<1>>, 200, d)
    \/ StartsLeft /\ StartFade("u1", <<>>, 200, 100)
    \/ StartsLeft /\ \E u \in UniverseIds, g \in {<<>>, << <<1>> >>} : StartChase(u, g, 50)
    \/ StartsLeft /\ \E u \in UniverseIds, c \in {<<>>, <<1>>}, d \in {{}, {0}, {-50}} :
          StartStrobe(u, c, 10, d)
    \/ \E i \in 1..MaxStarts : FadeTick(i)
    \/ \E i \in 1..MaxStarts : ChaseTick(i)
    \/ \E i \in 1..MaxStarts : StrobeTick(i)
    \/ ConnectUniverse("u2", "dmx-king-1")
    \/ ClockLeft /\ Advance

SpecFaulty == InitConnected /\ [][NextFaulty]_vars

\* C15: on a connected universe, the start of a fade, chase or strobe with an
\* empty channel set or group list, or with a duration <= 0, fails with
\* InvalidEffectParameters, registers no effect and schedules no timer.
C15_InvalidParametersRefused ==
    [][LET refused == /\ ~ret'.ok
                      /\ ret'.error = "InvalidEffectParameters"
                      /\ UNCHANGED effectVars
       IN /\ \A d \in {0, -100} : StartFade("u1", <<1>>, 200, d) => refused
          /\ StartFade("u1", <<>>, 200, 100) => refused
          /\ StartChase("u1", <<>>, 50) => refused
          /\ \A d \in {{}, {0}, {-50}} : StartStrobe("u1", <<>>, 10, d) => refused
          /\ \A d \in {{0}, {-50}} : StartStrobe("u1", <<1>>, 10, d) => refused]_vars

\* C16: when the callback of a running effect cannot write because its universe
\* does not exist, the effect is terminated as STOPPED: its timer is cleared, it
\* leaves the active set, and a notification reports the termination.
C16_FailedTickStopsEffect ==
    [][\A i \in 1..Len(intervals) :
          (/\ RunState(intervals[i]) = "RUNNING"
           /\ intervals[i].universeId \notin DOMAIN universes
           /\ Tick(i)) =>
              /\ RunState(intervals'[i]) = "STOPPED"
              /\ intervals'[i].cleared
              /\ intervals[i].id \notin activeEffects'
              /\ emitted' # <<>>]_vars

\* C17: connect(u, a) with an adapter id that is not among the adapters
\* discovered so far fails with AdapterNotFound and leaves the universes as they
\* are; otherwise it succeeds and u is CONNECTED with 512 channels, all 0.
C17_ConnectChecksAdapter ==
    [][\A u \in UniverseIds, a \in AdapterInputs :
          ConnectUniverse(u, a) =>
              IF a \in dmxAdapters
                THEN /\ ret'.ok
                     /\ universes'[u].status = "CONNECTED"
                     /\ universes'[u].channels.length = 512
                     /\ \A ch \in 1..512 : ChannelValue(universes'[u].channels, ch) = 0
                     /\ \A w \in DOMAIN universes \ {u} : universes'[w] = universes[w]
                ELSE /\ ~ret'.ok
                     /\ ret'.error = "AdapterNotFound"
                     /\ universes' = universes]_vars

\* A connect naming an unknown adapter was refused while the universe it names
\* is connected and holds a value, which it keeps.
C17_Witness ==
    /\ ret = Threw("connectUniverse", "AdapterNotFound")
    /\ dmxAdapters # {}
    /\ IsConnected("u1")
    /\ ChannelValue(universes["u1"].channels, 1) = 200

\* C18: setChannels(u, m) on an existing universe succeeds whatever m holds,
\* writes exactly the entries of m with a channel in [1,512] and a value in
\* [0,255], leaves every other channel as it was, and returns the number of those
\* entries.
C18_SetChannelsAppliesValidEntries ==
    [][\A u \in UniverseIds, m \in UpdatesInputs :
          (u \in DOMAIN universes /\ SetChannels(u, m)) =>
              LET valid == {c \in DOMAIN m : c \in 1..512 /\ m[c] \in 0..255}
              IN /\ ret'.ok
                 /\ ret'.updatedCount = Cardinality(valid)
                 /\ \A ch \in 1..512 :
                       ChannelValue(universes'[u].channels, ch) =
                           IF ch \in valid THEN m[ch]
                           ELSE ChannelValue(universes[u].channels, ch)]_vars

\* A batch with one valid entry among four was applied: channel 2 took its
\* value, channel 1 kept the one it had and not the 256 of the batch.
C18_Witness ==
    /\ ret = [Returned("setChannels") EXCEPT !.updatedCount = 1]
    /\ ChannelValue(universes["u1"].channels, 1) = 255
    /\ ChannelValue(universes["u1"].channels, 2) = 255
    /\ ChannelValue(universes["u1"].channels, 512) = 255

\* C19: disconnect(u) of a registered universe sets its status to DISCONNECTED
\* and leaves its channel values, and every other universe, as they were;
\* disconnect of an unknown universe changes no universe and reports success.
C19_DisconnectKeepsChannels ==
    [][\A u \in UniverseIds :
          DisconnectUniverse(u) =>
              /\ ret'.ok
              /\ IF u \in DOMAIN universes
                   THEN /\ universes'[u].status = "DISCONNECTED"
                        /\ universes'[u].channels = universes[u].channels
                        /\ \A w \in DOMAIN universes \ {u} : universes'[w] = universes[w]
                   ELSE universes' = universes]_vars

\* A universe holding values was disconnected and still holds them.
C19_Witness ==
    /\ ret = Returned("disconnectUniverse")
    /\ "u1" \in DOMAIN universes
    /\ universes["u1"].status = "DISCONNECTED"
    /\ ChannelValue(universes["u1"].channels, 1) = 200
    /\ ChannelValue(universes["u1"].channels, 512) = 255

\* C20 (as stated): status(u) for a universe id absent from the registry fails
\* with UniverseNotFound and returns no success result.
C20_StatusOfAbsentFails ==
    [][\A u \in UniverseIds :
          (u \notin DOMAIN universes /\ GetUniverseStatus(u)) =>
              ~ret'.ok /\ ret'.error = "UniverseNotFound"]_vars

\* C20 (amended): status(u) never fails and changes nothing: for a universe id
\* absent from the registry it returns null (a success result without a status),
\* for a registered one the universe's status, channels and lastUpdate.
C20_StatusOfAbsentIsNull ==
    [][\A u \in UniverseIds :
          GetUniverseStatus(u) =>
              /\ ret'.ok
              /\ ret'.error = ""
              /\ UNCHANGED <<dmxAdapters, universes, fixtures, scenes, effectVars, frame, held>>
              /\ IF u \notin DOMAIN universes
                   THEN ret'.status = {}
                   ELSE \E st \in ret'.status :
                           /\ st.id = u
                           /\ st.status = universes[u].status
                           /\ st.channels = universes[u].channels
                           /\ st.lastUpdate = universes[u].lastUpdate]_vars

\* The status of "u2" was asked for while only "u1" is registered: the call
\* returned, with null.
C20_Witness ==
    /\ ret.op = "getUniverseStatus"
    /\ ret.ok
    /\ ret.status = {}
    /\ DOMAIN universes = {"u1"}
    /\ ChannelValue(universes["u1"].channels, 1) = 200

(***************************************************************************)
(* SpecSnapshot: a caller that asks for the status of a universe, keeps    *)
(* the channels array of the answer and assigns to it, beside direct       *)
(* writes and a reconnect of the universe.                                 *)
(***************************************************************************)

NextSnapshot ==
    \/ \E u \in UniverseIds : GetUniverseStatus(u)
    \/ KeepChannels
    \/ \E v \in {0, 200} : SetChannel("u1", 1, v)
    \/ SetChannels("u1", (5 :> 100) @@ (9 :> 200))
    \/ ConnectUniverse("u1", "dmx-king-1")
    \/ \E v \in {7, 999} : CallerWrites(0, v)

SpecSnapshot == InitConnected /\ [][NextSnapshot]_vars

\* C21: the channel snapshot that status returns is a copy: a later write to the
\* universe never changes a snapshot a caller holds, and assigning to the
\* snapshot never changes the universe's channel array.
C21_SnapshotIsCopy ==
    [][/\ (/\ held # NotHeld
           /\ \/ \E v \in {0, 200} : SetChannel("u1", 1, v)
              \/ SetChannels("u1", (5 :> 100) @@ (9 :> 200)))
          => HeldChannels' = HeldChannels
       /\ \A v \in {7, 999} : CallerWrites(0, v) => universes' = universes]_vars

(***************************************************************************)
(* SpecRetry: every control operation with one fixed argument list, so     *)
(* that an operation following itself is a retry; the clock may move       *)
(* between the two calls, and no timer callback runs between them.         *)
(***************************************************************************)

RetryFixture == FixtureId("u1", "par")
RetryScene == SceneId(0)
RetryChase == EffectId("chase", 0)

\* The operations that the amended statement covers.
RetrySafeOp ==
    \/ DisconnectUniverse("u1")
    \/ SetChannel("u1", 1, 200)
    \/ SetChannels("u1", (1 :> 200) @@ (2 :> 255))
    \/ SetFixtureMapping("u1", "par", 1, 2)
    \/ ControlFixture(RetryFixture, <<200, 255>>)
    \/ LoadScene(RetryScene)
    \/ DeleteScene(RetryScene)
    \/ StopEffect(RetryChase)
    \/ StopAllEffects({})

NextRetry ==
    \/ ConnectUniverse("u1", "dmx-king-1")
    \/ Cardinality(DOMAIN scenes) < 2 /\ SaveScene("s1", << <<"u1", (1 :> 200) @@ (2 :> 255)>> >>)
    \/ RetrySafeOp
    \/ Len(intervals) = 0 /\ StartChase("u1", << <<1>>, <<2>> >>, 50)
    \/ ClockLeft /\ Advance

SpecRetry == InitConnected /\ [][NextRetry]_vars

\* The controller's collections, the lastUpdate stamps of the universes aside.
Collections ==
    <<dmxAdapters,
      [u \in DOMAIN universes |-> [universes[u] EXCEPT !.lastUpdate = 0]],
      fixtures, scenes, effects, activeEffects, intervals>>

\* C22 (as stated): every control operation other than an effect start leaves,
\* when it follows itself with the same arguments, the controller state as the
\* first call left it.
C22_RetryKeepsState ==
    [][(\/ ret.op = "connectUniverse" /\ ConnectUniverse("u1", "dmx-king-1")
        \/ ret.op = "saveScene" /\ SaveScene("s1", << <<"u1", (1 :> 200) @@ (2 :> 255)>> >>)
        \/ ret.op = ret'.op /\ RetrySafeOp)
          => Collections' = Collections]_vars

\* C22 (the part that holds): disconnect, setChannel, setChannels, fixture
\* define, fixture control, scene load, scene delete, stop and stopAll leave,
\* when they follow themselves with the same arguments, the controller state as
\* the first call left it, the lastUpdate stamps aside.
C22_RetryKeepsStateExceptSaveConnect ==
    [][(ret.op = ret'.op /\ RetrySafeOp) => Collections' = Collections]_vars

\* A batch write was retried at a later time, on a universe with a fixture, a
\* scene and a stopped chase.
C22_Witness ==
    /\ ret.op = "setChannels"
    /\ ret.ok
    /\ "u1" \in DOMAIN universes
    /\ universes["u1"].lastUpdate > 0
    /\ ChannelValue(universes["u1"].channels, 2) = 255
    /\ RetryFixture \in DOMAIN fixtures
    /\ RetryScene \in DOMAIN scenes
    /\ Len(intervals) = 1
    /\ intervals[1].running = {FALSE}

\* C23: a successful start returns an effect id that no earlier effect has, and
\* leaves every earlier effect record in place, also when the clock has not
\* moved since the earlier start.
C23_StartCreatesNewEffect ==
    [][((\/ StartFade("u1", <<1>>, 200, 100)
         \/ StartChase("u1", << <<1>>, <<2>> >>, 50)
         \/ StartStrobe("u1", <<2>>, 10, {})) /\ ret'.ok)
          => /\ ret'.effectId \notin DOMAIN effects
             /\ \A id \in DOMAIN effects : effects'[id] = effects[id]]_vars

(***************************************************************************)
(* SpecStopAll: chases on two connected universes and stopAllEffects with  *)
(* every filter.                                                           *)
(***************************************************************************)

InitTwoUniverses ==
    /\ dmxAdapters = KnownAdapters
    /\ universes = [u \in UniverseIds |->
                       [id |-> u, adapterId |-> "dmx-king-1",
                        number |-> IF u = "u1" THEN 0 ELSE 1,
                        channels |-> ArrayNew(NumChannels), status |-> "CONNECTED",
                        lastUpdate |-> 0]]
    /\ fixtures = <<>>
    /\ scenes = <<>>
    /\ effects = <<>>
    /\ activeEffects = {}
    /\ intervals = <<>>
    /\ now = 0
    /\ frame = NoFrame
    /\ ret = Returned("connectUniverse")
    /\ emitted = <<"universeConnected">>
    /\ held = NotHeld

\* The values stopAllEffects' universeId takes: none, or one universe.
StopAllFilters == {{}} \cup {{u} : u \in UniverseIds}

NextStopAll ==
    \/ EffectsLeft /\ \E u \in UniverseIds : StartChase(u, << <<1>>, <<2>> >>, 50)
    \/ \E i \in 1..MaxEffects : ChaseTick(i)
    \/ \E f \in StopAllFilters : StopAllEffects(f)
    \/ ClockLeft /\ Advance

SpecStopAll == InitTwoUniverses /\ [][NextStopAll]_vars

\* The effect objects stopAll with this filter is to stop.
InFilter(effect, filter) == filter = {} \/ effect.universeId \in filter

\* What C24 asks of one stopAllEffects call.
StopAllStopsAndKeeps(filter) ==
    /\ \A i \in 1..Len(intervals) :
          IF RunState(intervals[i]) = "RUNNING" /\ InFilter(intervals[i], filter)
            THEN RunState(intervals'[i]) = "STOPPED"
          ELSE intervals'[i] = intervals[i]
    /\ \A id \in activeEffects :
          ~InFilter(intervals[effects[id]], filter) => id \in activeEffects'

\* C24: stopAll(u) stops every RUNNING effect of universe u and leaves every
\* effect of every other universe as it is, RUNNING and active; stopAll() stops
\* every RUNNING effect.
C24_StopAllFilter ==
    [][\A f \in StopAllFilters : StopAllEffects(f) => StopAllStopsAndKeeps(f)]_vars

\* Every effect object is the one its id maps to: no start has taken the id of
\* an earlier one.
NoSharedEffectId ==
    \A i \in 1..Len(intervals) :
        intervals[i].id \in DOMAIN effects /\ effects[intervals[i].id] = i

\* C24 (the part that holds): the same for the calls made while no two effects
\* share an id.
C24_StopAllFilterDistinctIds ==
    [][\A f \in StopAllFilters :
          (NoSharedEffectId /\ StopAllEffects(f)) => StopAllStopsAndKeeps(f)]_vars

\* stopAll("u1") has stopped the chase of u1 and left the chase of u2 running.
C24_Witness ==
    /\ ret.op = "stopAllEffects"
    /\ NoSharedEffectId
    /\ \E i, j \in 1..Len(intervals) :
          /\ intervals[i].universeId = "u1" /\ RunState(intervals[i]) = "STOPPED"
          /\ intervals[j].universeId = "u2" /\ RunState(intervals[j]) = "RUNNING"
          /\ intervals[j].id \in activeEffects

\* The run state of the effect an id names, {} for an id that names none.
RunStateOf(effectId) ==
    IF effectId \in DOMAIN effects THEN {RunState(intervals[effects[effectId]])} ELSE {}

\* C25: stop(effectId) moves a RUNNING effect to STOPPED; for an id that is
\* unknown, or whose effect is STOPPED or COMPLETED already, it returns success
\* and changes no effect.
C25_StopOnlyRunning ==
    [][\A id \in EffectIdInputs({"fade", "chase", "strobe"}) :
          StopEffect(id) =>
             /\ ret'.ok
             /\ IF RunStateOf(id) = {"RUNNING"}
                  THEN RunStateOf(id)' = {"STOPPED"}
                ELSE intervals' = intervals /\ activeEffects' = activeEffects]_vars

\* C25 (the part that holds): the same for every id but that of a COMPLETED
\* effect.
C25_StopOnlyRunningNotCompleted ==
    [][\A id \in EffectIdInputs({"fade", "chase", "strobe"}) :
          (StopEffect(id) /\ RunStateOf(id) # {"COMPLETED"}) =>
             /\ ret'.ok
             /\ IF RunStateOf(id) = {"RUNNING"}
                  THEN RunStateOf(id)' = {"STOPPED"}
                ELSE intervals' = intervals /\ activeEffects' = activeEffects]_vars

(***************************************************************************)
(* SpecSurface: the controller behind the ipcMain handlers of              *)
(* httpController.js.  A handler awaits one controller method inside       *)
(* try/catch and answers {success: true, ...} or {success: false, error:   *)
(* error.message}; its config parameter is destructured in the parameter   *)
(* list, outside the try.                                                  *)
(***************************************************************************)

\* The controller methods that have a handler.
HandledOps ==
    {"getAvailableAdapters", "connectUniverse", "setChannel", "setChannels",
     "startFade", "startChase", "startStrobe", "stopEffect", "stopAllEffects",
     "getUniverseStatus", "disconnectUniverse"}

\* The handlers declared as async (event, { ... }) => ...
ConfigHandlers ==
    {"connect-dmx-universe", "set-dmx-channel", "set-dmx-channels", "start-dmx-fade",
     "start-dmx-chase", "start-dmx-strobe", "stop-dmx-effect", "stop-dmx-all-effects",
     "get-dmx-universe-status", "disconnect-dmx-universe"}

\* ipcRenderer.invoke(handler) with no config: destructuring undefined throws
\* a TypeError before the handler's try block is entered.
InvokeWithoutConfig(handler) ==
    /\ ret' = Threw(handler, "TypeError")
    /\ emitted' = <<>>
    /\ UNCHANGED <<dmxAdapters, universes, fixtures, scenes, effectVars, now, frame, held>>

\* What the caller of the handler gets for the call ret describes: the fields
\* of the object the handler returns, or the rejection of its promise.
Reply ==
    IF ret.op \in ConfigHandlers THEN [rejected |-> ret.error]
    ELSE IF ret.ok THEN [success |-> TRUE]
    ELSE [success |-> FALSE, error |-> ret.error]

NextSurface ==
    \/ GetAvailableAdapters
    \/ \E a \in AdapterInputs : ConnectUniverse("u1", a)
    \/ \E w \in {<<1, 200>>, <<513, 255>>, <<2, 256>>} : SetChannel("u1", w[1], w[2])
    \/ \E u \in UniverseIds : SetChannels(u, (5 :> 100) @@ (9 :> 200))
    \/ EffectsLeft /\ \E u \in UniverseIds : StartFade(u, <<1>>, 200, 100)
    \/ EffectsLeft /\ StartChase("u1", << <<1>>, <<2>> >>, 50)
    \/ EffectsLeft /\ StartStrobe("u1", <<2>>, 10, {})
    \/ \E id \in EffectIdInputs({"fade", "chase"}) : StopEffect(id)
    \/ \E f \in {{}, {"u1"}} : StopAllEffects(f)
    \/ \E u \in UniverseIds : GetUniverseStatus(u)
    \/ DisconnectUniverse("u1")
    \/ \E h \in {"stop-dmx-all-effects", "get-dmx-universe-status"} : InvokeWithoutConfig(h)

SpecSurface == Init /\ [][NextSurface]_vars

\* C26: every call of the control surface is answered by a success result or by
\* a failure that carries an error kind and a message: no handler rejects, a
\* failure has both fields, and a controller operation that failed is not
\* answered as a success.
C26_StructuredReplies ==
    ret.op \in HandledOps \cup ConfigHandlers =>
        /\ "success" \in DOMAIN Reply
        /\ Reply.success = ret.ok
        /\ ~Reply.success => {"kind", "error"} \subseteq DOMAIN Reply

\* C26 (the part that holds): a call made with a config object is answered, as
\* a success exactly when the controller method returned, otherwise as a
\* failure with the message of the error thrown.
C26_AnsweredWithMessage ==
    ret.op \in HandledOps =>
        /\ "success" \in DOMAIN Reply
        /\ Reply.success = ret.ok
        /\ ~Reply.success => "error" \in DOMAIN Reply /\ Reply.error # ""

\* What C27 asks of the callback of chase i when it writes: the group of its
\* step count is lit, the other group channels are dark, the count moves on.
ChaseStepLights(i) ==
    LET effect == intervals[i]
        groups == effect.channelGroups
        lit == Range(groups[(effect.step % Len(groups)) + 1])
        after == universes'[effect.universeId].channels
    IN /\ \A ch \in lit : ChannelValue(after, ch) = 255
       /\ \A ch \in Flat(groups) \ lit : ChannelValue(after, ch) = 0
       /\ intervals'[i].step = effect.step + 1

\* What C27 asks of every step beside chase i: the timer stays set unless the
\* chase was stopped, and a running chase stays in the active set unless the
\* step is a stop.
ChaseEndsOnlyByStop(i) ==
    LET effect == intervals[i]
    IN /\ (~effect.cleared /\ intervals'[i].cleared) => RunState(effect) = "STOPPED"
       /\ (/\ RunState(effect) = "RUNNING"
           /\ effect.id \in activeEffects
           /\ effect.id \notin activeEffects')
             => \E id \in EffectIdInputs({"chase"}) : StopEffect(id)

\* C27: the k-th callback of a running chase, whose step count is k - 1, leaves
\* every channel of group ((k-1) mod n) at 255 and every other group channel at
\* 0; a chase is never completed by its own callback and leaves the active set
\* only by a stop.
C27_ChaseSteps ==
    [][\A i \in 1..Len(intervals) :
          intervals[i].type = "CHASE" =>
             /\ (ChaseTick(i) /\ RunState(intervals[i]) = "RUNNING") => ChaseStepLights(i)
             /\ ChaseEndsOnlyByStop(i)]_vars

\* C27 (the part that holds): the same while no two effects share an id.
C27_ChaseStepsDistinctIds ==
    [][\A i \in 1..Len(intervals) :
          (intervals[i].type = "CHASE" /\ NoSharedEffectId) =>
             /\ (ChaseTick(i) /\ RunState(intervals[i]) = "RUNNING") => ChaseStepLights(i)
             /\ ChaseEndsOnlyByStop(i)]_vars

(***************************************************************************)
(* SpecInterp: one fade of any duration over channels 1 and 512, with a    *)
(* writer of channel 1 before the start and a writer of channel 512 at any *)
(* time.                                                                   *)
(***************************************************************************)

NextInterp ==
    \/ Len(intervals) = 0 /\ SetChannel("u1", 1, 100)
    \/ SetChannel("u1", 512, 50)
    \/ Len(intervals) = 0 /\ \E target \in {200, 0}, d \in {50, 75, 100, 0, -100} :
          StartFade("u1", <<1, 512>>, target, d)
    \/ FadeTick(1)
    \/ ClockLeft /\ Advance

SpecInterp == InitConnected /\ [][NextInterp]_vars

Distance(a, b) == IF a >= b THEN a - b ELSE b - a

\* The integer nearest to start + (target - start) * min(elapsed / duration, 1),
\* the upper one of two: the v with v - 1/2 <= x < v + 1/2, for elapsed > 0.  It
\* is looked for as far from start as elapsed / duration can take it.
Interpolated(start, target, elapsed, duration) ==
    LET twice == IF duration > 0
                   THEN 2 * start * duration
                          + 2 * (target - start) * (IF elapsed < duration THEN elapsed ELSE duration)
                 ELSE 2 * start * duration + 2 * (target - start) * elapsed
        span == Distance(target, start) * (elapsed \div Distance(duration, 0) + 1) + 1
    IN IF duration = 0 THEN target
       ELSE CHOOSE v \in (start - span)..(start + span) :
               IF duration > 0
                 THEN (2 * v - 1) * duration <= twice /\ twice < (2 * v + 1) * duration
               ELSE (2 * v - 1) * duration >= twice /\ twice > (2 * v + 1) * duration

Between(v, a, b) == (a <= v /\ v <= b) \/ (b <= v /\ v <= a)

\* C28: the value a fade's callback writes to a channel is round(start +
\* (target - start) * min(elapsed / duration, 1)) for the start value recorded
\* at the start (a value outside [0,255] is not written); for duration > 0 it
\* lies between that start value and the target, and a later callback's value
\* is never farther from the target than an earlier one's.
C28_FadeInterpolates ==
    /\ [][(FadeTick(1) /\ ret'.ok) =>
            LET effect == intervals[1]
                elapsed == now - effect.startTime
                d == CHOOSE x \in effect.duration : TRUE
            IN \A k \in 1..Len(effect.channels) :
                  LET start == CHOOSE x \in effect.startValues[k] : TRUE
                      v == Interpolated(start, effect.targetValue, elapsed, d)
                      before == ChannelValue(universes["u1"].channels, effect.channels[k])
                      after == ChannelValue(universes'["u1"].channels, effect.channels[k])
                  IN /\ after = IF v \in 0..MaxValue THEN v ELSE before
                     /\ d > 0 => after = v /\ Between(v, start, effect.targetValue)]_vars
    /\ [](\A i \in 1..Len(intervals) : \A k \in 1..Len(intervals[i].channels) :
            \A d \in intervals[i].duration :
            \A e1, e2 \in {TickMs * j : j \in 1..((now - intervals[i].startTime) \div TickMs)} :
               (d > 0 /\ e1 <= e2) =>
                  LET start == CHOOSE x \in intervals[i].startValues[k] : TRUE
                      target == intervals[i].targetValue
                  IN Distance(target, Interpolated(start, target, e2, d))
                        <= Distance(target, Interpolated(start, target, e1, d)))

\* A fade from 100 to 200 over 75 ms has written 167 at 50 ms and is running.
C28_Witness ==
    /\ Len(intervals) = 1
    /\ RunState(intervals[1]) = "RUNNING"
    /\ intervals[1].duration = {75}
    /\ intervals[1].startValues[1] = {100}
    /\ intervals[1].targetValue = 200
    /\ now - intervals[1].startTime = 50
    /\ ret.op = "fadeTick"
    /\ ChannelValue(universes["u1"].channels, 1) = 167

\* C29: the callback in which a fade's progress reaches 1 writes the target to
\* its channels and takes the fade out of the active set; the callback never
\* runs again, so from then on the fade's channels change only by direct writes.
C29_FadeFinalWrite ==
    [][/\ (FadeTick(1) /\ RunState(intervals'[1]) = "COMPLETED") =>
             /\ \A c \in Range(intervals[1].channels) :
                   ChannelValue(universes'["u1"].channels, c) = intervals[1].targetValue
             /\ intervals[1].id \notin activeEffects'
       /\ (Len(intervals) = 1 /\ RunState(intervals[1]) = "COMPLETED") =>
             /\ ~FadeTick(1)
             /\ intervals[1].id \notin activeEffects'
             /\ universes' = universes \/ SetChannel("u1", 512, 50)]_vars

\* A fade to 200 over 50 ms has completed, channel 512 was then set to 50 and
\* still holds it when the cleared timer's next period has passed.
C29_Witness ==
    /\ Len(intervals) = 1
    /\ RunState(intervals[1]) = "COMPLETED"
    /\ intervals[1].duration = {50}
    /\ intervals[1].targetValue = 200
    /\ now >= intervals[1].due
    /\ ChannelValue(universes["u1"].channels, 512) = 50
    /\ ChannelValue(universes["u1"].channels, 1) = 200

(***************************************************************************)
(* SpecStrobe: one strobe over channels 2 and 3, endless or of a finite    *)
(* duration, beside a writer of channel 2 and a stop.                      *)
(***************************************************************************)

NextStrobe ==
    \/ SetChannel("u1", 2, 200)
    \/ Len(intervals) = 0 /\ \E duration \in {{}, {0}, {50}, {75}} :
          StartStrobe("u1", <<2, 3>>, 10, duration)
    \/ StrobeTick(1)
    \/ StopEffect(EffectId("strobe", 0))
    \/ ClockLeft /\ Advance

SpecStrobe == InitConnected /\ [][NextStrobe]_vars

\* The strobe's timer has not run its callback yet.
NotTickedYet(effect) == effect.due = effect.startTime + effect.period

\* now - effect.startTime > duration, false for an endless strobe.
StrobeOver(effect) == \E d \in effect.duration : now - effect.startTime > d

\* C30: the first callback of a strobe writes 0 to all its channels and every
\* later one the opposite of the one before, 255 or 0; the first callback that
\* finds elapsed > duration writes nothing, takes the strobe out of the active
\* set and clears the timer, and no callback before it does.
C30_StrobeAlternates ==
    [][/\ (StrobeTick(1) /\ ~StrobeOver(intervals[1])) =>
             LET before == ChannelValue(universes["u1"].channels, 3)
                 after == ChannelValue(universes'["u1"].channels, 3)
             IN /\ after = IF NotTickedYet(intervals[1]) THEN 0 ELSE MaxValue - before
                /\ after \in {0, MaxValue}
                /\ ChannelValue(universes'["u1"].channels, 2) = after
                /\ ~intervals'[1].cleared
                /\ activeEffects' = activeEffects
       /\ (StrobeTick(1) /\ StrobeOver(intervals[1])) =>
             /\ universes' = universes
             /\ intervals[1].id \notin activeEffects'
             /\ intervals'[1].cleared
       /\ (Len(intervals) = 1 /\ intervals[1].cleared) => ~StrobeTick(1)]_vars

\* An endless strobe has written 0 and then 255.
C30_Witness ==
    /\ Len(intervals) = 1
    /\ intervals[1].duration = {}
    /\ ret.op = "strobeTick"
    /\ ~NotTickedYet(intervals[1])
    /\ ChannelValue(universes["u1"].channels, 2) = 255
    /\ ChannelValue(universes["u1"].channels, 3) = 255

\* A strobe of 50 ms wrote once and was completed by its second callback.
C30_WitnessOver ==
    /\ Len(intervals) = 1
    /\ intervals[1].duration = {50}
    /\ intervals[1].cleared
    /\ RunState(intervals[1]) = "COMPLETED"
    /\ intervals[1].id \notin activeEffects
    /\ "strobeComplete" \in Range(emitted)

(***************************************************************************)
(* SpecEndless: one strobe of unbounded duration and every way of          *)
(* cancelling it.  The clock keeps moving while it may and a due timer     *)
(* runs its callback.                                                      *)
(***************************************************************************)

NextEndless ==
    \/ Len(intervals) = 0 /\ StartStrobe("u1", <<2, 3>>, 10, {})
    \/ StrobeTick(1)
    \/ \E id \in EffectIdInputs({"strobe"}) : StopEffect(id)
    \/ \E f \in {{}, {"u1"}} : StopAllEffects(f)
    \/ DisconnectUniverse("u1")
    \/ ClockLeft /\ Advance

SpecEndless ==
    /\ InitConnected
    /\ [][NextEndless]_vars
    /\ WF_vars(ClockLeft /\ Advance)
    /\ WF_vars(StrobeTick(1))

\* C31 (the part that holds): the callback of a strobe of unbounded duration
\* never clears the timer and never takes the strobe out of the active set.
C31_EndlessStrobeKeepsTicking ==
    [][StrobeTick(1) => (~intervals'[1].cleared /\ activeEffects' = activeEffects)]_vars

\* C31: a strobe of unbounded duration keeps its timer while nobody stops it,
\* and once stop, stopAll or disconnect has cancelled it the timer is
\* eventually cleared.
C31_EndlessStrobeEndsWhenCancelled ==
    /\ [][(StrobeTick(1) /\ RunState(intervals[1]) = "RUNNING") => ~intervals'[1].cleared]_vars
    /\ (Len(intervals) = 1 /\ RunState(intervals[1]) = "STOPPED")
          ~> (Len(intervals) = 1 /\ intervals[1].cleared)

(***************************************************************************)
(* SpecLastWrite: a fade, a chase and a strobe over channel 1 beside a     *)
(* direct writer of channel 1, in every order.                             *)
(***************************************************************************)

NextLastWrite ==
    \/ SetChannel("u1", 1, 77)
    \/ EffectsLeft /\ StartFade("u1", <<1>>, 200, 100)
    \/ EffectsLeft /\ StartChase("u1", << <<1>>, <<2>> >>, 50)
    \/ EffectsLeft /\ StartStrobe("u1", <<1, 2>>, 10, {})
    \/ \E i \in 1..MaxEffects : FadeTick(i)
    \/ \E i \in 1..MaxEffects : ChaseTick(i)
    \/ \E i \in 1..MaxEffects : StrobeTick(i)
    \/ ClockLeft /\ Advance

SpecLastWrite == InitConnected /\ [][NextLastWrite]_vars

\* After the step every channel the batch names with a valid value holds that
\* value, and every other channel holds what it held.  The channels looked at
\* are those of the batch and those that are not 0 before or after the step.
BatchLands(updates) ==
    LET before == universes["u1"].channels
        after == universes'["u1"].channels
    IN /\ after.length = NumChannels
       /\ DOMAIN after.nz \subseteq 0..(NumChannels - 1)
       /\ \A ch \in (DOMAIN updates \cup {i + 1 : i \in DOMAIN before.nz \cup DOMAIN after.nz})
                       \cap 1..NumChannels :
             ChannelValue(after, ch) =
                 IF ch \in DOMAIN updates /\ ValidEntry(ch, updates[ch]) THEN updates[ch]
                 ELSE ChannelValue(before, ch)

\* C32: last write wins.  Whatever the effects and direct writes before it
\* left in a channel, a write leaves its own value there, with no priority and
\* no merging, in every interleaving.
C32_LastWriteWins ==
    [][/\ SetChannel("u1", 1, 77) => BatchLands(1 :> 77)
       /\ \A i \in 1..Len(intervals) :
             LET effect == intervals[i]
             IN /\ FadeTick(i) => BatchLands(FadeUpdates(effect, now - effect.startTime))
                /\ ChaseTick(i) => BatchLands(ChaseUpdates(effect.channelGroups, effect.step))
                /\ StrobeTick(i) => BatchLands(StrobeUpdates(effect.channels, effect.isOn))]_vars

\* A direct write of 77 landed on channel 1 after two effects had written there.
C32_Witness ==
    /\ ret.op = "setChannel"
    /\ ChannelValue(universes["u1"].channels, 1) = 77
    /\ Len(intervals) = 2
    /\ \A i \in 1..2 : intervals[i].due > intervals[i].startTime + intervals[i].period

\* C33: connect(u, a) with a discovered adapter on a registered universe id
\* succeeds and replaces the record: u is CONNECTED afterwards and its 512
\* channels are 0, whatever values and status it had.
C33_ReconnectReplaces ==
    [][\A a \in AdapterInputs :
          (ConnectUniverse("u1", a) /\ a \in dmxAdapters /\ "u1" \in DOMAIN universes) =>
             /\ ret'.ok
             /\ universes'["u1"].status = "CONNECTED"
             /\ universes'["u1"].channels.length = NumChannels
             /\ \A ch \in 1..NumChannels : ChannelValue(universes'["u1"].channels, ch) = 0]_vars

\* The universe was connected a second time, at a later time than the first.
C33_Witness ==
    /\ ret.op = "connectUniverse"
    /\ ret.ok
    /\ "u1" \in DOMAIN universes
    /\ universes["u1"].number = 1
    /\ universes["u1"].lastUpdate > 0
    /\ universes["u1"].status = "CONNECTED"
    /\ universes["u1"].channels = ArrayNew(NumChannels)

\* The events that report a start, a natural completion, a stop.
StartedEvents == {"fadeStarted", "chaseStarted", "strobeStarted"}
CompletedEvents == {"fadeComplete", "strobeComplete"}
StoppedEvents == {"effectStopped", "effectsStopped"}

\* What C34 asks of one step: the events of the step report every effect that
\* the step started, completed or stopped.
TransitionsReported ==
    /\ Len(intervals') > Len(intervals) => Range(emitted') \cap StartedEvents # {}
    /\ \A i \in 1..Len(intervals) :
          /\ (RunState(intervals[i]) = "RUNNING" /\ RunState(intervals'[i]) = "COMPLETED")
                => Range(emitted') \cap CompletedEvents # {}
          /\ (RunState(intervals[i]) = "RUNNING" /\ RunState(intervals'[i]) = "STOPPED")
                => Range(emitted') \cap StoppedEvents # {}

\* C34: every effect transition is reported by a notification: a start by a
\* started event, a natural completion by a completed event, a stop of a
\* running effect by stop(effectId), stopAll or disconnect by a stopped event.
C34_TransitionsReported == [][TransitionsReported]_vars

\* C34 (the part that holds): the same for every step but stopEffect's.
C34_TransitionsReportedButStop ==
    [][(\E id \in EffectIdInputs({"fade", "chase", "strobe"}) : StopEffect(id))
          \/ TransitionsReported]_vars

\* C35: in every reachable state the cached last-applied values of each fixture
\* are as many as the fixture has channels.
C35_CachedValuesLength ==
    \A id \in DOMAIN fixtures : Len(fixtures[id].currentValues) = fixtures[id].channels

\* C35 (the part that holds): setFixtureMapping leaves as many cached values as
\* the fixture has channels, and controlFixture as many as it was given.
C35_CachedValuesAsGiven ==
    [][/\ \A f \in FixtureInputs :
             SetFixtureMapping("u1", f[1], f[2], f[3]) =>
                Len(fixtures'[FixtureId("u1", f[1])].currentValues) = f[3]
       /\ \A id \in DOMAIN fixtures, values \in ValuesInputs :
             (ControlFixture(id, values) /\ ret'.ok) =>
                fixtures'[id].currentValues = values]_vars

\* C36: in every reachable state a universe whose status is DISCONNECTED has no
\* effect in the active set.
C36_DisconnectedHasNoActiveEffect ==
    \A u \in DOMAIN universes :
        universes[u].status = "DISCONNECTED" => ActiveEffectCount(u) = 0

\* C36 (the part that holds): when disconnectUniverse returns, the universe has
\* no effect in the active set.
C36_DisconnectEmptiesActiveSet ==
    [][\A u \in DOMAIN universes :
          DisconnectUniverse(u) => ActiveEffectCount(u)' = 0]_vars

(***************************************************************************)
(* SpecAtomic: one chase as the only writer of a universe whose frame and  *)
(* status are read at any time between the callbacks.                      *)
(***************************************************************************)

NextAtomic ==
    \/ Len(intervals) = 0 /\ \E g \in {<< <<1>>, <<2>> >>, << <<1, 2>>, <<3>> >>} :
          StartChase("u1", g, 50)
    \/ ChaseTick(1)
    \/ GetDMXBuffer("u1")
    \/ GetUniverseStatus("u1")
    \/ StopEffect(EffectId("chase", 0))
    \/ ClockLeft /\ Advance

SpecAtomic == InitConnected /\ [][NextAtomic]_vars

\* The chase's channels as its last callback left them: the group of the step
\* before the count is lit, the other group channels are dark.
WholeTick(value) ==
    LET groups == intervals[1].channelGroups
        lit == Range(groups[((intervals[1].step - 1) % Len(groups)) + 1])
    IN \A ch \in Flat(groups) : value[ch] = IF ch \in lit THEN MaxValue ELSE 0

NextReconnect ==
    \/ Len(intervals) = 0 /\ SetChannel("u1", 1, 100)
    \/ Len(intervals) = 0 /\ StartFade("u1", <<1>>, 200, 100)
    \/ Len(intervals) = 0 /\ StartChase("u1", << <<1>>, <<2>> >>, 50)
    \/ Len(intervals) = 1 /\ ConnectUniverse("u1", "dmx-king-1")
    \/ FadeTick(1)
    \/ ChaseTick(1)
    \/ GetUniverseStatus("u1")
    \/ ClockLeft /\ Advance

SpecReconnect == InitConnected /\ [][NextReconnect]_vars

\* C38: connecting a registered universe again cancels none of its effects:
\* they stay as they are and in the active set, the channel array is replaced
\* by zeros, and the next callbacks write into the new array, a fade computing
\* its value from the start values it recorded on the old one.
C38_ReconnectKeepsEffects ==
    [][/\ ConnectUniverse("u1", "dmx-king-1") =>
             /\ ret'.ok
             /\ intervals' = intervals /\ effects' = effects /\ activeEffects' = activeEffects
             /\ ActiveEffectCount("u1")' = ActiveEffectCount("u1")
             /\ universes'["u1"].channels = ArrayNew(NumChannels)
       /\ StartFade("u1", <<1>>, 200, 100) =>
             intervals'[1].startValues = <<{ChannelValue(universes["u1"].channels, 1)}>>
       /\ FadeTick(1) =>
             LET effect == intervals[1]
             IN ChannelValue(universes'["u1"].channels, 1) =
                   Interpolated(CHOOSE v \in effect.startValues[1] : TRUE, effect.targetValue,
                                now - effect.startTime, CHOOSE d \in effect.duration : TRUE)
       /\ (ChaseTick(1) /\ RunState(intervals[1]) = "RUNNING") =>
             BatchLands(ChaseUpdates(intervals[1].channelGroups, intervals[1].step))]_vars

\* A fade started at 100 has written 150 at half its duration into the array
\* of the universe that was connected again after the start.
C38_Witness ==
    /\ Len(intervals) = 1
    /\ intervals[1].type = "FADE"
    /\ intervals[1].startValues = <<{100}>>
    /\ intervals[1].id \in activeEffects
    /\ universes["u1"].number = 1
    /\ ret.op = "fadeTick"
    /\ now - intervals[1].startTime = 50
    /\ ChannelValue(universes["u1"].channels, 1) = 150

(***************************************************************************)
(* SpecAccepted: one fade with any duration that startFade takes, which    *)
(* nobody stops.  The timer keeps firing and the clock keeps moving; the   *)
(* fade is started only while the end of a positive duration, or the       *)
(* second callback of another one, lies within the run's clock.            *)
(***************************************************************************)

NextAccepted ==
    \/ Len(intervals) = 0 /\ SetChannel("u1", 1, 100)
    \/ Len(intervals) = 0 /\ \E target \in {200, 0}, d \in {100, 0, -100} :
          FadeFits(IF d > 0 THEN d ELSE TickMs) /\ StartFade("u1", <<1>>, target, d)
    \/ FadeTick(1)
    \/ GetUniverseStatus("u1")
    \/ ClockLeft /\ Advance

SpecAccepted ==
    /\ InitConnected
    /\ [][NextAccepted]_vars
    /\ WF_vars(ClockLeft /\ Advance)
    /\ WF_vars(FadeTick(1))

\* C39: every fade that startFade accepts ends without a stop: its timer is
\* cleared and its id leaves the active set, whatever its duration and target.
C39_AcceptedFadesTerminate ==
    (Len(intervals) = 1) ~>
        (Len(intervals) = 1 /\ intervals[1].cleared /\ intervals[1].id \notin activeEffects)

\* The part that holds: a fade with a duration >= 0 ends that way, and the
\* callback of a fade with a negative duration never ends it.
C39_NonNegativeFadesTerminate ==
    /\ (Len(intervals) = 1 /\ intervals[1].duration \in {{100}, {0}}) ~>
           (Len(intervals) = 1 /\ intervals[1].cleared /\ intervals[1].id \notin activeEffects)
    /\ [][(FadeTick(1) /\ intervals[1].duration = {-100}) =>
              /\ ~intervals'[1].cleared
              /\ intervals[1].id \in activeEffects']_vars

\* A fade with the duration -100 that has run for 100 ms and more is scheduled
\* and in the active set as on its first day.
C39_Witness ==
    /\ Len(intervals) = 1
    /\ intervals[1].duration = {-100}
    /\ ret.op = "fadeTick"
    /\ now - intervals[1].startTime >= 100
    /\ ~intervals[1].cleared
    /\ intervals[1].id \in activeEffects

\* C40: the controller of the control surface starts with no adapter and no
\* universe; a connect made while nothing is discovered fails with
\* AdapterNotFound and registers nothing; only getAvailableAdapters fills the
\* adapter list; and what the one controller has discovered and registered
\* is never taken back, so a registered universe always has a discovery
\* before it.
C40_ConnectOnlyAfterDiscovery ==
    /\ (dmxAdapters = {} /\ universes = <<>>)
    /\ [][/\ \A a \in AdapterInputs :
                (ConnectUniverse("u1", a) /\ dmxAdapters = {}) =>
                    /\ ~ret'.ok
                    /\ ret'.error = "AdapterNotFound"
                    /\ universes' = universes
          /\ dmxAdapters' # dmxAdapters => GetAvailableAdapters
          /\ dmxAdapters # {} => dmxAdapters' = dmxAdapters
          /\ DOMAIN universes \subseteq DOMAIN universes'
          /\ universes' # <<>> => dmxAdapters' # {}]_vars

\* connect-dmx-universe was called before any get-dmx-adapters and failed.
C40_Witness ==
    /\ dmxAdapters = {}
    /\ universes = <<>>
    /\ ret.op = "connectUniverse"
    /\ ~ret.ok
    /\ ret.error = "AdapterNotFound"
    /\ Reply = [success |-> FALSE, error |-> "AdapterNotFound"]

====
